---- MODULE Spec2Model ----
(***************************************************************************)
(* ASON text-to-value pipeline: comment stripper, normalizer, trimmer,     *)
(* recursive-descent parser and serde decoder, as state machine over the   *)
(* token stream produced by the lexer.                                     *)
(*                                                                         *)
(* A stream is a sequence of items Result<TokenWithRange, AsonError>; a    *)
(* PeekableIter over a stream is the sequence of the items not yet taken.  *)
(* Integer number tokens store their bit pattern as a big-endian sequence  *)
(* of bytes, one byte per 8 bits of the bucket's width.                    *)
(***************************************************************************)
EXTENDS Integers, Sequences, FiniteSets, TLC

VARIABLES
    source,      \* the items the lexer produces for the document
    schema,      \* the type T the caller of from_str asks for
    lexer,       \* lexer items not yet pulled by ClearTokenIter
    cleared,     \* items ClearTokenIter has emitted, not yet pulled by the normalizer
    normalized,  \* items NormalizedTokenIter has emitted, not yet pulled by the trimmer
    trimmed,     \* items TrimmedTokenIter has emitted: the parser's and decoder's upstream
    pc,          \* the stage that runs next
    parsed,      \* the result of parse_from
    decoded      \* the result of from_str

vars == <<source, schema, lexer, cleared, normalized, trimmed, pc, parsed, decoded>>

----------------------------------------------------------------------------
(* Location *)

new_range(index, length) == [index |-> index, length |-> length]

from_range_pair(start_range, end_range) ==
    [index |-> start_range.index,
     length |-> end_range.index + end_range.length - start_range.index]

get_position_by_range_start(range) == [index |-> range.index, length |-> 0]

----------------------------------------------------------------------------
(* Token, TokenWithRange, AsonError *)

SignedBuckets == {"I8", "I16", "I32", "I64"}
UnsignedBuckets == {"U8", "U16", "U32", "U64"}
FloatBuckets == {"F32", "F64"}

Token(kind) == [kind |-> kind, bucket |-> "", val |-> <<>>, type_name |-> "", name |-> ""]

NumberToken(bucket, val) == [Token("Number") EXCEPT !.bucket = bucket, !.val = val]

Identifier(name) == [Token("Identifier") EXCEPT !.name = name]

Variant(type_name, member_name) ==
    [Token("Variant") EXCEPT !.type_name = type_name, !.name = member_name]

NoError == [kind |-> "", msg |-> "", loc |-> new_range(0, 0)]

Message(msg) == [kind |-> "Message", msg |-> msg, loc |-> new_range(0, 0)]

MessageWithLocation(msg, loc) == [kind |-> "MessageWithLocation", msg |-> msg, loc |-> loc]

UnexpectedEndOfDocument(msg) ==
    [kind |-> "UnexpectedEndOfDocument", msg |-> msg, loc |-> new_range(0, 0)]

TokenWithRange(token, range) == [ok |-> TRUE, token |-> token, range |-> range, err |-> NoError]

ErrItem(e) == [ok |-> FALSE, token |-> Token(""), range |-> new_range(0, 0), err |-> e]

IsToken(item, kind) == item.ok /\ item.token.kind = kind

(* Option<Result<TokenWithRange, AsonError>> returned by a stage's next(),   *)
(* with the upstream as the call leaves it.                                  *)
SomeItem(item, rest) == [some |-> TRUE, item |-> item, rest |-> rest]

NoneItem(rest) == [some |-> FALSE, item |-> ErrItem(NoError), rest |-> rest]

----------------------------------------------------------------------------
(* Integer bit patterns: big-endian byte sequences *)

Width(bucket) ==
    CASE bucket \in {"I8", "U8"} -> 8
      [] bucket \in {"I16", "U16"} -> 16
      [] bucket \in {"I32", "U32", "F32"} -> 32
      [] OTHER -> 64

Bytes(n, first, others) == [i \in 1..n |-> IF i = 1 THEN first ELSE others]

IsZero(v) == \A i \in 1..Len(v) : v[i] = 0

GreaterThan(a, b) ==
    \E i \in 1..Len(a) : a[i] > b[i] /\ \A j \in 1..(i - 1) : a[j] = b[j]

\* iN::MAX as uN
SignedMax(n) == Bytes(n, 127, 255)

\* the magnitude of iN::MIN
SignedMinMagnitude(n) == Bytes(n, 128, 0)

\* v * factor + carry, as <<the low Len(v) bytes, the carry out>>
RECURSIVE MulAdd(_, _, _)
MulAdd(v, factor, carry) ==
    IF v = <<>> THEN <<(<<>>), carry>>
    ELSE LET t == v[Len(v)] * factor + carry
             r == MulAdd(SubSeq(v, 1, Len(v) - 1), factor, t \div 256)
         IN <<Append(r[1], t % 256), r[2]>>

\* v divided by 10, as <<quotient, remainder>>
RECURSIVE DivMod10(_, _)
DivMod10(v, rem) ==
    IF v = <<>> THEN <<(<<>>), rem>>
    ELSE LET cur == rem * 256 + Head(v)
             r == DivMod10(Tail(v), cur % 10)
         IN <<(<<cur \div 10>>) \o r[1], r[2]>>

\* wrapping negation of a bit pattern: (2^w - v) mod 2^w
WrappingNeg(v) == MulAdd([i \in 1..Len(v) |-> 255 - v[i]], 1, 1)[1]

DigitChars == <<"0", "1", "2", "3", "4", "5", "6", "7", "8", "9">>

\* format!("{}", v) of an unsigned integer
RECURSIVE to_string(_)
to_string(v) ==
    LET qr == DivMod10(v, 0)
    IN IF IsZero(qr[1]) THEN <<DigitChars[qr[2] + 1]>>
       ELSE to_string(qr[1]) \o <<DigitChars[qr[2] + 1]>>

\* str::parse::<iN>() of a string that starts with '-': the digits are
\* accumulated as a non-positive iN by checked_mul(10) and checked_sub(digit);
\* acc is the magnitude accumulated so far.
RECURSIVE parse_negative_digits(_, _)
parse_negative_digits(digits, acc) ==
    IF digits = <<>> THEN [ok |-> TRUE, magnitude |-> acc]
    ELSE IF \A d \in 1..10 : DigitChars[d] # Head(digits)
    THEN [ok |-> FALSE, magnitude |-> acc]
    ELSE LET digit == (CHOOSE d \in 1..10 : DigitChars[d] = Head(digits)) - 1
             mul == MulAdd(acc, 10, 0)
             sub == MulAdd(mul[1], 1, digit)
             min == SignedMinMagnitude(Len(acc))
         IN IF mul[2] # 0 \/ GreaterThan(mul[1], min)
            THEN [ok |-> FALSE, magnitude |-> acc]
            ELSE IF sub[2] # 0 \/ GreaterThan(sub[1], min)
            THEN [ok |-> FALSE, magnitude |-> acc]
            ELSE parse_negative_digits(Tail(digits), sub[1])

\* A negation that is symmetric around zero: it rejects the magnitude of iN::MIN.
parse_negative_symmetric(v) ==
    [ok |-> ~GreaterThan(v, SignedMax(Len(v))), val |-> WrappingNeg(v)]

\* format!("-{}", v).parse::<iN>(), the Ok value cast back with `as uN`
parse_negative(v) ==
    LET s == <<"-">> \o to_string(v)
        r == IF Len(s) < 2 THEN [ok |-> FALSE, magnitude |-> v]
             ELSE parse_negative_digits(Tail(s), Bytes(Len(v), 0, 0))
    IN [ok |-> r.ok, val |-> WrappingNeg(r.magnitude)]

(* Float values: <<sign bit, class>>, class 0 zero, 1 finite, 2 infinite, 3 NaN *)
is_nan(f) == f[2] = 3

neg(f) == <<1 - f[1], f[2]>>

----------------------------------------------------------------------------
(* PeekableIter: the items not yet taken, in order *)

peek(upstream, offset) ==
    IF offset < Len(upstream) THEN SomeItem(upstream[offset + 1], upstream)
    ELSE NoneItem(upstream)

next(upstream) ==
    IF upstream = <<>> THEN NoneItem(upstream) ELSE SomeItem(Head(upstream), Tail(upstream))

\* the capacities the pipeline's PeekableIters are constructed with: in front
\* of the normalizer, of the trimmer, of the parser and of the decoder
ClearedPeekCount == 1

NormalizedPeekCount == 1

PARSER_PEEK_TOKEN_MAX_COUNT == 3

DeserializerPeekCount == 2

\* what a peek at an offset the buffer has no room for ends in
BeyondCapacity == [kind |-> "Panic", msg |-> "peek beyond the capacity", loc |-> new_range(0, 0)]

\* PeekableIter::peek of an iterator constructed with a capacity
PeekableIter_peek(upstream, capacity, offset) ==
    IF offset < capacity THEN peek(upstream, offset)
    ELSE SomeItem(ErrItem(BeyondCapacity), upstream)

----------------------------------------------------------------------------
(* normalizer.rs *)

\* ClearTokenIter::next
RECURSIVE clean(_)
clean(upstream) ==
    LET n == next(upstream)
    IN IF ~n.some THEN NoneItem(n.rest)
       ELSE IF IsToken(n.item, "Comment") THEN clean(n.rest)
       ELSE SomeItem(n.item, n.rest)

\* `while let Some(Ok(NewLine)) = upstream.peek(0) { end_range = range; upstream.next(); }`
RECURSIVE consume_newlines(_, _)
consume_newlines(upstream, end_range) ==
    LET p == PeekableIter_peek(upstream, ClearedPeekCount, 0)
    IN IF p.some /\ IsToken(p.item, "NewLine")
       THEN consume_newlines(next(upstream).rest, p.item.range)
       ELSE [rest |-> upstream, end_range |-> end_range]

\* A range check that lets the magnitude of iN::MIN pass without a sign.
overflowed_past_min(num) ==
    num.bucket \in SignedBuckets /\ GreaterThan(num.val, SignedMinMagnitude(Len(num.val)))

\* A range check that is never made.
overflowed_never(num) == num.bucket \in SignedBuckets /\ GreaterThan(num.val, num.val)

overflowed(num) ==
    num.bucket \in SignedBuckets /\ GreaterThan(num.val, SignedMax(Len(num.val)))

BucketName(bucket) ==
    CASE bucket = "I8" -> "i8" [] bucket = "I16" -> "i16"
      [] bucket = "I32" -> "i32" [] OTHER -> "i64"

normalize_newline(rest, start_range) ==
    LET run == consume_newlines(rest, start_range)
        p == PeekableIter_peek(run.rest, ClearedPeekCount, 0)
    IN IF p.some /\ IsToken(p.item, "Comma")
       THEN SomeItem(TokenWithRange(Token("Comma"), from_range_pair(p.item.range, p.item.range)),
                     consume_newlines(next(run.rest).rest, p.item.range).rest)
       ELSE SomeItem(TokenWithRange(Token("NewLine"), from_range_pair(start_range, run.end_range)),
                     run.rest)

\* A Comma that leaves the newlines after it in the stream.
normalize_comma_keeps_newlines(rest, start_range) ==
    SomeItem(TokenWithRange(Token("Comma"), from_range_pair(start_range, start_range)), rest)

\* A Comma that takes the commas and newlines after it with it.
RECURSIVE consume_separators(_)
consume_separators(upstream) ==
    LET p == PeekableIter_peek(upstream, ClearedPeekCount, 0)
    IN IF p.some /\ (IsToken(p.item, "NewLine") \/ IsToken(p.item, "Comma"))
       THEN consume_separators(next(upstream).rest)
       ELSE upstream

normalize_comma_merges_commas(rest, start_range) ==
    SomeItem(TokenWithRange(Token("Comma"), from_range_pair(start_range, start_range)),
             consume_separators(rest))

normalize_comma(rest, start_range) ==
    SomeItem(TokenWithRange(Token("Comma"), from_range_pair(start_range, start_range)),
             consume_newlines(rest, start_range).rest)

\* The plus branch, were the emitted number left with its own range.
normalize_plus_own_range(rest, start_range) ==
    LET p == PeekableIter_peek(rest, ClearedPeekCount, 0)
    IN IF p.some /\ IsToken(p.item, "Number") /\ ~overflowed(p.item.token)
             /\ ~(p.item.token.bucket \in FloatBuckets /\ is_nan(p.item.token.val))
       THEN SomeItem(p.item, next(rest).rest)
       ELSE SomeItem(ErrItem(MessageWithLocation("The plus sign can only be applied to numbers.",
                                                 start_range)), rest)

\* The plus branch, were its errors located at the sign alone.
normalize_plus_error_at_sign(rest, start_range) ==
    LET p == PeekableIter_peek(rest, ClearedPeekCount, 0)
    IN IF ~p.some
       THEN SomeItem(ErrItem(UnexpectedEndOfDocument("Missing the number that follow the plus sign.")), rest)
       ELSE IF IsToken(p.item, "Number") /\ ~overflowed(p.item.token)
                /\ ~(p.item.token.bucket \in FloatBuckets /\ is_nan(p.item.token.val))
       THEN SomeItem(TokenWithRange(p.item.token, from_range_pair(start_range, p.item.range)),
                     next(rest).rest)
       ELSE SomeItem(ErrItem(MessageWithLocation("The plus sign can only be applied to numbers.",
                                                 start_range)), rest)

normalize_plus(rest, start_range) ==
    LET p == PeekableIter_peek(rest, ClearedPeekCount, 0)
    IN IF ~p.some
       THEN SomeItem(ErrItem(UnexpectedEndOfDocument("Missing the number that follow the plus sign.")), rest)
       ELSE IF ~p.item.ok THEN SomeItem(ErrItem(p.item.err), rest)
       ELSE IF p.item.token.kind # "Number"
       THEN SomeItem(ErrItem(MessageWithLocation("The plus sign can only be applied to numbers.",
                                                 from_range_pair(start_range, p.item.range))), rest)
       ELSE LET num == p.item.token
            IN IF num.bucket \in FloatBuckets /\ is_nan(num.val)
               THEN SomeItem(ErrItem(MessageWithLocation("The plus sign cannot be applied to NaN.",
                                                         from_range_pair(start_range, p.item.range))), rest)
               ELSE IF overflowed(num)
               THEN SomeItem(ErrItem(MessageWithLocation("The " \o BucketName(num.bucket) \o " number is overflowed.",
                                                         from_range_pair(start_range, p.item.range))), rest)
               ELSE LET n == next(rest)
                    IN SomeItem(TokenWithRange(n.item.token, from_range_pair(start_range, n.item.range)),
                                n.rest)

\* NormalizedTokenIter::next
RECURSIVE normalize(_)

\* The minus branch, were the number emitted with its magnitude as it was written.
normalize_minus_keeps_magnitude(rest, start_range) ==
    LET p == PeekableIter_peek(rest, ClearedPeekCount, 0)
    IN IF p.some /\ IsToken(p.item, "Number")
       THEN SomeItem(TokenWithRange(p.item.token, from_range_pair(start_range, p.item.range)),
                     next(rest).rest)
       ELSE SomeItem(ErrItem(MessageWithLocation("The minus sign can only be applied to numbers.",
                                                 start_range)), rest)

\* The minus branch, were -0 of an unsigned bucket accepted as 0.
normalize_minus_accepts_unsigned_zero(rest, start_range) ==
    LET p == PeekableIter_peek(rest, ClearedPeekCount, 0)
    IN IF p.some /\ IsToken(p.item, "Number") /\ IsZero(p.item.token.val)
       THEN SomeItem(TokenWithRange(p.item.token, from_range_pair(start_range, p.item.range)),
                     next(rest).rest)
       ELSE IF p.some /\ p.item.ok
       THEN SomeItem(ErrItem(MessageWithLocation(
                "The minus sign cannot be applied to unsigned numbers.",
                from_range_pair(start_range, p.item.range))), rest)
       ELSE SomeItem(ErrItem(UnexpectedEndOfDocument(
                "Missing the number that follow the minus sign.")), rest)

normalize_minus(rest, start_range) ==
    LET p == PeekableIter_peek(rest, ClearedPeekCount, 0)
    IN IF ~p.some
       THEN SomeItem(ErrItem(UnexpectedEndOfDocument("Missing the number that follow the minus sign.")), rest)
       ELSE IF ~p.item.ok THEN SomeItem(ErrItem(p.item.err), rest)
       ELSE IF p.item.token.kind # "Number"
       THEN SomeItem(ErrItem(MessageWithLocation("The minus sign can only be applied to numbers.",
                                                 from_range_pair(start_range, p.item.range))), rest)
       ELSE LET num == p.item.token
                combined_range == from_range_pair(start_range, p.item.range)
            IN IF num.bucket \in FloatBuckets
               THEN IF is_nan(num.val)
                    THEN SomeItem(ErrItem(MessageWithLocation("The minus sign cannot be applied to NaN.",
                                                              combined_range)), rest)
                    ELSE SomeItem(TokenWithRange(NumberToken(num.bucket, neg(num.val)), combined_range),
                                  next(rest).rest)
               ELSE IF num.bucket \in SignedBuckets
               THEN LET parse_result == parse_negative(num.val)
                    IN IF parse_result.ok
                       THEN \* `iter.next()`: the number is taken by a nested call of the normalizer
                            SomeItem(TokenWithRange(NumberToken(num.bucket, parse_result.val), combined_range),
                                     normalize(rest).rest)
                       ELSE SomeItem(ErrItem(MessageWithLocation(
                                "Can not convert to negative " \o BucketName(num.bucket) \o ".",
                                combined_range)), rest)
               ELSE SomeItem(ErrItem(MessageWithLocation(
                        "The minus sign cannot be applied to unsigned numbers.", combined_range)), rest)

normalize(upstream) ==
    LET n == next(upstream)
    IN IF ~n.some THEN NoneItem(n.rest)
       ELSE IF ~n.item.ok THEN SomeItem(n.item, n.rest)
       ELSE LET token == n.item.token
                start_range == n.item.range
            IN CASE token.kind = "NewLine" -> normalize_newline(n.rest, start_range)
                 [] token.kind = "Comma" -> normalize_comma(n.rest, start_range)
                 [] token.kind = "Plus" -> normalize_plus(n.rest, start_range)
                 [] token.kind = "Minus" -> normalize_minus(n.rest, start_range)
                 [] token.kind = "Number" /\ overflowed(token) ->
                      SomeItem(ErrItem(MessageWithLocation(
                          "The " \o BucketName(token.bucket) \o " number is overflowed.", start_range)), n.rest)
                 [] OTHER -> SomeItem(n.item, n.rest)

\* TrimmedTokenIter::new
TrimmedTokenIter_new(upstream) ==
    LET p == PeekableIter_peek(upstream, NormalizedPeekCount, 0)
    IN IF p.some /\ IsToken(p.item, "NewLine") THEN next(upstream).rest ELSE upstream

\* trim that hands a NewLine on and leaves it in the upstream
trim_leaves_newline(upstream) ==
    LET n == next(upstream)
    IN IF ~n.some THEN NoneItem(n.rest)
       ELSE IF IsToken(n.item, "NewLine")
               /\ ~PeekableIter_peek(n.rest, NormalizedPeekCount, 0).some THEN NoneItem(n.rest)
       ELSE IF IsToken(n.item, "NewLine") THEN SomeItem(n.item, upstream)
       ELSE SomeItem(n.item, n.rest)

\* trim that hands the final NewLine on
trim_keeps_last_newline(upstream) ==
    LET n == next(upstream)
    IN IF ~n.some THEN NoneItem(n.rest) ELSE SomeItem(n.item, n.rest)

\* TrimmedTokenIter::next
trim(upstream) ==
    LET n == next(upstream)
    IN IF ~n.some THEN NoneItem(n.rest)
       ELSE IF IsToken(n.item, "NewLine")
               /\ ~PeekableIter_peek(n.rest, NormalizedPeekCount, 0).some THEN NoneItem(n.rest)
       ELSE SomeItem(n.item, n.rest)

----------------------------------------------------------------------------
(* ast: AsonNode *)

AsonNode(ntype) ==
    [ntype |-> ntype, bucket |-> "", neg |-> FALSE, val |-> <<>>,
     type_name |-> "", name |-> "", form |-> "", items |-> <<>>]

NoNode == AsonNode("")

\* `*v as iN`: the signed twin of a bit pattern, as sign and magnitude
convert_number_token(token) ==
    IF token.bucket \in SignedBuckets /\ GreaterThan(token.val, SignedMax(Len(token.val)))
    THEN [AsonNode("Number") EXCEPT !.bucket = token.bucket, !.neg = TRUE,
                                    !.val = WrappingNeg(token.val)]
    ELSE [AsonNode("Number") EXCEPT !.bucket = token.bucket, !.val = token.val]

\* Variant::new, Variant::with_value, Variant::with_tuple, Variant::with_object
VariantNode(type_name, member_name, form, items) ==
    [AsonNode("Variant") EXCEPT !.type_name = type_name, !.name = member_name,
                                !.form = form, !.items = items]

KeyValuePair(key, value) == [key |-> key, value |-> value]

NameValuePair(name, value) == [name |-> name, value |-> value]

----------------------------------------------------------------------------
(* Result<T, AsonError> of a method of the parser or of the decoder, with  *)
(* the state (upstream, last_range) the call leaves behind.                *)

Ok(val, st) == [ok |-> TRUE, val |-> val, err |-> NoError, st |-> st]

Fail(err, st) == [ok |-> FALSE, val |-> NoNode, err |-> err, st |-> st]

SomeToken(token) == [some |-> TRUE, token |-> token]

NoToken == [some |-> FALSE, token |-> Token("")]

----------------------------------------------------------------------------
(* parser.rs: Parser.  A method that ends a statement with `?` hands its   *)
(* result to the operator that models the statements after it.             *)

Parser_new(upstream) == [upstream |-> upstream, last_range |-> new_range(0, 0)]

Parser_next_token(st) ==
    LET on_next(n) ==
            IF ~n.some THEN Ok(NoToken, [st EXCEPT !.upstream = n.rest])
            ELSE IF n.item.ok
            THEN Ok(SomeToken(n.item.token), [upstream |-> n.rest, last_range |-> n.item.range])
            ELSE Fail(n.item.err, [st EXCEPT !.upstream = n.rest])
    IN on_next(next(st.upstream))

Parser_peek_range(st, offset) ==
    LET on_peek(p) ==
            IF ~p.some THEN Ok([some |-> FALSE, range |-> new_range(0, 0)], st)
            ELSE IF p.item.ok THEN Ok([some |-> TRUE, range |-> p.item.range], st)
            ELSE Fail(p.item.err, st)
    IN on_peek(PeekableIter_peek(st.upstream, PARSER_PEEK_TOKEN_MAX_COUNT, offset))

Parser_peek_token(st, offset) ==
    LET on_peek(p) ==
            IF ~p.some THEN Ok(NoToken, st)
            ELSE IF p.item.ok THEN Ok(SomeToken(p.item.token), st)
            ELSE Fail(p.item.err, st)
    IN on_peek(PeekableIter_peek(st.upstream, PARSER_PEEK_TOKEN_MAX_COUNT, offset))

Parser_expect_token(st, offset, expected_token) ==
    LET on_peek(p) ==
            IF ~p.ok THEN p
            ELSE Ok(p.val.some /\ p.val.token.kind = expected_token, st)
    IN on_peek(Parser_peek_token(st, offset))

\* expect_token_ignore_newline that looks for the token three items further on
Parser_expect_token_ignore_newline_looks_far(st, offset, expected_token) ==
    LET on_after(after) ==
            IF ~after.ok THEN after
            ELSE IF after.val THEN Ok([some |-> TRUE, newline |-> TRUE], st)
            ELSE Ok([some |-> FALSE, newline |-> FALSE], st)
        on_newline(newline) ==
            IF ~newline.ok THEN newline
            ELSE IF ~newline.val THEN Ok([some |-> FALSE, newline |-> FALSE], st)
            ELSE on_after(Parser_expect_token(st, offset + 3, expected_token))
        on_direct(direct) ==
            IF ~direct.ok THEN direct
            ELSE IF direct.val THEN Ok([some |-> TRUE, newline |-> FALSE], st)
            ELSE on_newline(Parser_expect_token(st, offset, "NewLine"))
    IN on_direct(Parser_expect_token(st, offset, expected_token))

Parser_expect_token_ignore_newline(st, offset, expected_token) ==
    LET on_after(after) ==
            IF ~after.ok THEN after
            ELSE IF after.val THEN Ok([some |-> TRUE, newline |-> TRUE], st)
            ELSE Ok([some |-> FALSE, newline |-> FALSE], st)
        on_newline(newline) ==
            IF ~newline.ok THEN newline
            ELSE IF ~newline.val THEN Ok([some |-> FALSE, newline |-> FALSE], st)
            ELSE on_after(Parser_expect_token(st, offset + 1, expected_token))
        on_direct(direct) ==
            IF ~direct.ok THEN direct
            ELSE IF direct.val THEN Ok([some |-> TRUE, newline |-> FALSE], st)
            ELSE on_newline(Parser_expect_token(st, offset, "NewLine"))
    IN on_direct(Parser_expect_token(st, offset, expected_token))

Parser_consume_new_line_if_exist(st) ==
    LET on_next(n) == IF n.ok THEN Ok(TRUE, n.st) ELSE n
        on_peek(p) ==
            IF ~p.ok THEN p
            ELSE IF p.val.some /\ p.val.token.kind = "NewLine"
            THEN on_next(Parser_next_token(st))
            ELSE Ok(FALSE, st)
    IN on_peek(Parser_peek_token(st, 0))

\* consume_new_line_or_comma_if_exist, were a Comma no separator
Parser_consume_new_line_only(st) == Parser_consume_new_line_if_exist(st)

Parser_consume_new_line_or_comma_if_exist(st) ==
    LET on_next(n) == IF n.ok THEN Ok(TRUE, n.st) ELSE n
        on_peek(p) ==
            IF ~p.ok THEN p
            ELSE IF p.val.some /\ p.val.token.kind \in {"NewLine", "Comma"}
            THEN on_next(Parser_next_token(st))
            ELSE Ok(FALSE, st)
    IN on_peek(Parser_peek_token(st, 0))

\* consume_token, were its error located at the whole range of the token
Parser_consume_token_at_range(st, expected_token, token_description) ==
    LET on_next(n) ==
            IF ~n.ok THEN n
            ELSE IF ~n.val.some
            THEN Fail(UnexpectedEndOfDocument("Expect token: " \o token_description \o "."), n.st)
            ELSE IF n.val.token.kind = expected_token THEN Ok(TRUE, n.st)
            ELSE Fail(MessageWithLocation("Expect token: " \o token_description \o ".",
                                          n.st.last_range), n.st)
    IN on_next(Parser_next_token(st))

\* consume_token, were the end of the stream reported at the last token's position
Parser_consume_token_positioned_end(st, expected_token, token_description) ==
    LET on_next(n) ==
            IF ~n.ok THEN n
            ELSE IF ~n.val.some \/ n.val.token.kind # expected_token
            THEN Fail(MessageWithLocation("Expect token: " \o token_description \o ".",
                                          get_position_by_range_start(n.st.last_range)), n.st)
            ELSE Ok(TRUE, n.st)
    IN on_next(Parser_next_token(st))

Parser_consume_token(st, expected_token, token_description) ==
    LET on_next(n) ==
            IF ~n.ok THEN n
            ELSE IF ~n.val.some
            THEN Fail(UnexpectedEndOfDocument("Expect token: " \o token_description \o "."), n.st)
            ELSE IF n.val.token.kind = expected_token THEN Ok(TRUE, n.st)
            ELSE Fail(MessageWithLocation("Expect token: " \o token_description \o ".",
                                          get_position_by_range_start(n.st.last_range)), n.st)
    IN on_next(Parser_next_token(st))

Parser_consume_right_paren(st) == Parser_consume_token(st, "RightParen", "right parenthese")

Parser_consume_right_bracket(st) == Parser_consume_token(st, "RightBracket", "right bracket")

Parser_consume_right_brace(st) == Parser_consume_token(st, "RightBrace", "right brace")

Parser_consume_colon(st) == Parser_consume_token(st, "Colon", "colon sign")

RECURSIVE Parser_parse_node(_)
RECURSIVE Parser_parse_tuple_variant_loop(_, _)
RECURSIVE Parser_parse_key_value_pairs_loop(_, _)
RECURSIVE Parser_parse_list_loop(_, _, _, _)
RECURSIVE Parser_parse_tuple_loop(_, _)

\* the `while let Some(token) = self.peek_token(0)?` loop of parse_tuple_variant
Parser_parse_tuple_variant_loop(st, items) ==
    LET on_sep(value, found_sep) ==
            IF ~found_sep.ok THEN found_sep
            ELSE IF ~found_sep.val THEN Ok(Append(items, value.val), found_sep.st)
            ELSE Parser_parse_tuple_variant_loop(found_sep.st, Append(items, value.val))
        on_value(value) ==
            IF ~value.ok THEN value
            ELSE on_sep(value, Parser_consume_new_line_or_comma_if_exist(value.st))
        on_peek(p) ==
            IF ~p.ok THEN p
            ELSE IF ~p.val.some \/ p.val.token.kind = "RightParen" THEN Ok(items, st)
            ELSE on_value(Parser_parse_node(st))
    IN on_peek(Parser_peek_token(st, 0))

\* parse_tuple_variant, were a payload of one item kept in the tuple form
Parser_parse_tuple_variant_keeps_tuple(st) ==
    LET on_close(variant, loop, close) ==
            IF ~close.ok THEN close
            ELSE IF Len(loop.val) = 0
            THEN Fail(MessageWithLocation("The value of tuple style variant can not be empty.",
                                          get_position_by_range_start(close.st.last_range)),
                      close.st)
            ELSE Ok(VariantNode(variant.type_name, variant.name, "Tuple", loop.val), close.st)
        on_loop(variant, loop) ==
            IF ~loop.ok THEN loop
            ELSE on_close(variant, loop, Parser_consume_right_paren(loop.st))
        on_newline(variant, newline) ==
            IF ~newline.ok THEN newline
            ELSE on_loop(variant, Parser_parse_tuple_variant_loop(newline.st, <<>>))
        on_paren(variant, paren) ==
            IF ~paren.ok THEN paren
            ELSE on_newline(variant, Parser_consume_new_line_if_exist(paren.st))
        on_variant(n) ==
            IF ~n.ok THEN n ELSE on_paren(n.val.token, Parser_next_token(n.st))
    IN on_variant(Parser_next_token(st))

Parser_parse_tuple_variant(st) ==
    LET on_close(variant, loop, close) ==
            IF ~close.ok THEN close
            ELSE IF Len(loop.val) = 0
            THEN Fail(MessageWithLocation("The value of tuple style variant can not be empty.",
                                          get_position_by_range_start(close.st.last_range)),
                      close.st)
            ELSE IF Len(loop.val) = 1
            THEN Ok(VariantNode(variant.type_name, variant.name, "Value", <<loop.val[1]>>), close.st)
            ELSE Ok(VariantNode(variant.type_name, variant.name, "Tuple", loop.val), close.st)
        on_loop(variant, loop) ==
            IF ~loop.ok THEN loop
            ELSE on_close(variant, loop, Parser_consume_right_paren(loop.st))
        on_newline(variant, newline) ==
            IF ~newline.ok THEN newline
            ELSE on_loop(variant, Parser_parse_tuple_variant_loop(newline.st, <<>>))
        on_paren(variant, paren) ==
            IF ~paren.ok THEN paren
            ELSE on_newline(variant, Parser_consume_new_line_if_exist(paren.st))
        on_variant(n) ==
            IF ~n.ok THEN n ELSE on_paren(n.val.token, Parser_next_token(n.st))
    IN on_variant(Parser_next_token(st))

\* the `while let Some(token) = self.peek_token(0)?` loop of parse_key_value_pairs
Parser_parse_key_value_pairs_loop(st, kvps) ==
    LET on_sep(pairs, found_sep) ==
            IF ~found_sep.ok THEN found_sep
            ELSE IF ~found_sep.val THEN Ok(pairs, found_sep.st)
            ELSE Parser_parse_key_value_pairs_loop(found_sep.st, pairs)
        on_value(name, value) ==
            IF ~value.ok THEN value
            ELSE on_sep(Append(kvps, KeyValuePair(name, value.val)),
                        Parser_consume_new_line_or_comma_if_exist(value.st))
        on_newline2(name, newline2) ==
            IF ~newline2.ok THEN newline2 ELSE on_value(name, Parser_parse_node(newline2.st))
        on_colon(name, colon) ==
            IF ~colon.ok THEN colon
            ELSE on_newline2(name, Parser_consume_new_line_if_exist(colon.st))
        on_newline1(name, newline1) ==
            IF ~newline1.ok THEN newline1 ELSE on_colon(name, Parser_consume_colon(newline1.st))
        on_name(n) ==
            IF ~n.ok THEN n
            ELSE IF ~n.val.some
            THEN Fail(UnexpectedEndOfDocument("Expect a key name for object."), n.st)
            ELSE IF n.val.token.kind # "Identifier"
            THEN Fail(MessageWithLocation("Expect a key name for object.",
                                          get_position_by_range_start(n.st.last_range)), n.st)
            ELSE on_newline1(n.val.token.name, Parser_consume_new_line_if_exist(n.st))
        on_peek(p) ==
            IF ~p.ok THEN p
            ELSE IF ~p.val.some \/ p.val.token.kind = "RightBrace" THEN Ok(kvps, st)
            ELSE on_name(Parser_next_token(st))
    IN on_peek(Parser_peek_token(st, 0))

Parser_parse_key_value_pairs(st) ==
    LET on_close(loop, close) == IF ~close.ok THEN close ELSE Ok(loop.val, close.st)
        on_loop(loop) ==
            IF ~loop.ok THEN loop ELSE on_close(loop, Parser_consume_right_brace(loop.st))
        on_newline(newline) ==
            IF ~newline.ok THEN newline
            ELSE on_loop(Parser_parse_key_value_pairs_loop(newline.st, <<>>))
        on_brace(brace) ==
            IF ~brace.ok THEN brace ELSE on_newline(Parser_consume_new_line_if_exist(brace.st))
    IN on_brace(Parser_next_token(st))

Parser_parse_struct_variant(st) ==
    LET on_kvps(variant, kvps) ==
            IF ~kvps.ok THEN kvps
            ELSE Ok(VariantNode(variant.type_name, variant.name, "Object", kvps.val), kvps.st)
        on_variant(n) ==
            IF ~n.ok THEN n ELSE on_kvps(n.val.token, Parser_parse_key_value_pairs(n.st))
    IN on_variant(Parser_next_token(st))

Parser_parse_object(st) ==
    LET on_kvps(kvps) ==
            IF ~kvps.ok THEN kvps
            ELSE Ok([AsonNode("Object") EXCEPT !.items = kvps.val], kvps.st)
    IN on_kvps(Parser_parse_key_value_pairs(st))

\* the `while let Some(token) = self.peek_token(0)?` loop of parse_list;
\* list_type is "Unknown", "List" or "Map"
Parser_parse_list_loop(st, list_type, items, nvps) ==
    LET on_sep(new_type, new_items, new_nvps, found_sep) ==
            IF ~found_sep.ok THEN found_sep
            ELSE IF ~found_sep.val
            THEN Ok([list_type |-> new_type, items |-> new_items, nvps |-> new_nvps], found_sep.st)
            ELSE Parser_parse_list_loop(found_sep.st, new_type, new_items, new_nvps)
        on_value(item, value) ==
            IF ~value.ok THEN value
            ELSE on_sep("Map", items, Append(nvps, NameValuePair(item.val, value.val)),
                        Parser_consume_new_line_or_comma_if_exist(value.st))
        on_newline2(item, newline2) ==
            IF ~newline2.ok THEN newline2 ELSE on_value(item, Parser_parse_node(newline2.st))
        on_colon(item, colon) ==
            IF ~colon.ok THEN colon
            ELSE on_newline2(item, Parser_consume_new_line_if_exist(colon.st))
        on_newline1(item, newline1) ==
            IF ~newline1.ok THEN newline1 ELSE on_colon(item, Parser_consume_colon(newline1.st))
        on_type(item, new_type) ==
            IF new_type = "List"
            THEN on_sep("List", Append(items, item.val), nvps,
                        Parser_consume_new_line_or_comma_if_exist(item.st))
            ELSE on_newline1(item, Parser_consume_new_line_if_exist(item.st))
        on_found_colon(item, found_colon) ==
            IF ~found_colon.ok THEN found_colon
            ELSE on_type(item, IF found_colon.val.some THEN "Map" ELSE "List")
        on_item(item) ==
            IF ~item.ok THEN item
            ELSE IF list_type = "Unknown"
            THEN on_found_colon(item, Parser_expect_token_ignore_newline(item.st, 0, "Colon"))
            ELSE on_type(item, list_type)
        on_peek(p) ==
            IF ~p.ok THEN p
            ELSE IF ~p.val.some \/ p.val.token.kind = "RightBracket"
            THEN Ok([list_type |-> list_type, items |-> items, nvps |-> nvps], st)
            ELSE on_item(Parser_parse_node(st))
    IN on_peek(Parser_peek_token(st, 0))

\* parse_list, were its node a List whatever the form of its elements
Parser_parse_list_always_list(st) ==
    LET on_close(loop, close) ==
            IF ~close.ok THEN close
            ELSE Ok([AsonNode("List") EXCEPT !.items = loop.val.items], close.st)
        on_loop(loop) ==
            IF ~loop.ok THEN loop ELSE on_close(loop, Parser_consume_right_bracket(loop.st))
        on_newline(newline) ==
            IF ~newline.ok THEN newline
            ELSE on_loop(Parser_parse_list_loop(newline.st, "Unknown", <<>>, <<>>))
        on_bracket(bracket) ==
            IF ~bracket.ok THEN bracket
            ELSE on_newline(Parser_consume_new_line_if_exist(bracket.st))
    IN on_bracket(Parser_next_token(st))

\* parse_list, were its node a Map only when a pair was parsed
Parser_parse_list_map_needs_pair(st) ==
    LET on_close(loop, close) ==
            IF ~close.ok THEN close
            ELSE IF loop.val.list_type # "Map"
            THEN Ok([AsonNode("List") EXCEPT !.items = loop.val.items], close.st)
            ELSE Ok([AsonNode("Map") EXCEPT !.items = loop.val.nvps], close.st)
        on_loop(loop) ==
            IF ~loop.ok THEN loop ELSE on_close(loop, Parser_consume_right_bracket(loop.st))
        on_newline(newline) ==
            IF ~newline.ok THEN newline
            ELSE on_loop(Parser_parse_list_loop(newline.st, "Unknown", <<>>, <<>>))
        on_bracket(bracket) ==
            IF ~bracket.ok THEN bracket
            ELSE on_newline(Parser_consume_new_line_if_exist(bracket.st))
    IN on_bracket(Parser_next_token(st))

Parser_parse_list(st) ==
    LET on_close(loop, close) ==
            IF ~close.ok THEN close
            ELSE IF loop.val.list_type = "List"
            THEN Ok([AsonNode("List") EXCEPT !.items = loop.val.items], close.st)
            ELSE Ok([AsonNode("Map") EXCEPT !.items = loop.val.nvps], close.st)
        on_loop(loop) ==
            IF ~loop.ok THEN loop ELSE on_close(loop, Parser_consume_right_bracket(loop.st))
        on_newline(newline) ==
            IF ~newline.ok THEN newline
            ELSE on_loop(Parser_parse_list_loop(newline.st, "Unknown", <<>>, <<>>))
        on_bracket(bracket) ==
            IF ~bracket.ok THEN bracket
            ELSE on_newline(Parser_consume_new_line_if_exist(bracket.st))
    IN on_bracket(Parser_next_token(st))

\* the `while let Some(token) = self.peek_token(0)?` loop of parse_tuple
Parser_parse_tuple_loop(st, items) ==
    LET on_sep(value, found_sep) ==
            IF ~found_sep.ok THEN found_sep
            ELSE IF ~found_sep.val THEN Ok(Append(items, value.val), found_sep.st)
            ELSE Parser_parse_tuple_loop(found_sep.st, Append(items, value.val))
        on_value(value) ==
            IF ~value.ok THEN value
            ELSE on_sep(value, Parser_consume_new_line_or_comma_if_exist(value.st))
        on_peek(p) ==
            IF ~p.ok THEN p
            ELSE IF ~p.val.some \/ p.val.token.kind = "RightParen" THEN Ok(items, st)
            ELSE on_value(Parser_parse_node(st))
    IN on_peek(Parser_peek_token(st, 0))

\* parse_tuple, without its check for an empty tuple
Parser_parse_tuple_allows_empty(st) ==
    LET on_close(loop, close) ==
            IF ~close.ok THEN close
            ELSE Ok([AsonNode("Tuple") EXCEPT !.items = loop.val], close.st)
        on_loop(loop) ==
            IF ~loop.ok THEN loop ELSE on_close(loop, Parser_consume_right_paren(loop.st))
        on_newline(newline) ==
            IF ~newline.ok THEN newline ELSE on_loop(Parser_parse_tuple_loop(newline.st, <<>>))
        on_paren(paren) ==
            IF ~paren.ok THEN paren ELSE on_newline(Parser_consume_new_line_if_exist(paren.st))
    IN on_paren(Parser_next_token(st))

Parser_parse_tuple(st) ==
    LET on_close(loop, close) ==
            IF ~close.ok THEN close
            ELSE IF Len(loop.val) = 0
            THEN Fail(MessageWithLocation("Tuple can not be empty.",
                                          get_position_by_range_start(close.st.last_range)),
                      close.st)
            ELSE Ok([AsonNode("Tuple") EXCEPT !.items = loop.val], close.st)
        on_loop(loop) ==
            IF ~loop.ok THEN loop ELSE on_close(loop, Parser_consume_right_paren(loop.st))
        on_newline(newline) ==
            IF ~newline.ok THEN newline ELSE on_loop(Parser_parse_tuple_loop(newline.st, <<>>))
        on_paren(paren) ==
            IF ~paren.ok THEN paren ELSE on_newline(Parser_consume_new_line_if_exist(paren.st))
    IN on_paren(Parser_next_token(st))

LiteralKinds == {"Boolean", "Char", "String", "Date", "HexByteData"}

\* parse_node that looks past a NewLine for the payload of a variant
Parser_parse_node_skips_newline(st) ==
    LET on_next(node, n) == IF ~n.ok THEN n ELSE Ok(node, n.st)
        on_range(r) ==
            IF ~r.ok THEN r
            ELSE Fail(MessageWithLocation("Unexpected token.",
                                          get_position_by_range_start(r.val.range)), st)
        on_peek1(current_token, p1) ==
            IF ~p1.ok THEN p1
            ELSE IF p1.val.some /\ p1.val.token.kind = "LeftParen"
            THEN Parser_parse_tuple_variant(st)
            ELSE IF p1.val.some /\ p1.val.token.kind = "LeftBrace"
            THEN Parser_parse_struct_variant(st)
            ELSE on_next(VariantNode(current_token.type_name, current_token.name, "None", <<>>),
                         Parser_next_token(st))
        on_newline(current_token, p1) ==
            IF p1.ok /\ p1.val.some /\ p1.val.token.kind = "NewLine"
            THEN on_peek1(current_token, Parser_peek_token(st, 2))
            ELSE on_peek1(current_token, p1)
        on_token(current_token) ==
            CASE current_token.kind = "Number" ->
                   on_next(convert_number_token(current_token), Parser_next_token(st))
              [] current_token.kind \in LiteralKinds ->
                   on_next([AsonNode(current_token.kind) EXCEPT !.name = current_token.name],
                           Parser_next_token(st))
              [] current_token.kind = "Variant" ->
                   on_newline(current_token, Parser_peek_token(st, 1))
              [] current_token.kind = "LeftBrace" -> Parser_parse_object(st)
              [] current_token.kind = "LeftBracket" -> Parser_parse_list(st)
              [] current_token.kind = "LeftParen" -> Parser_parse_tuple(st)
              [] OTHER -> on_range(Parser_peek_range(st, 0))
        on_peek(p) ==
            IF ~p.ok THEN p
            ELSE IF ~p.val.some THEN Fail(UnexpectedEndOfDocument("Incomplete document."), st)
            ELSE on_token(p.val.token)
    IN on_peek(Parser_peek_token(st, 0))

Parser_parse_node(st) ==
    LET on_next(node, n) == IF ~n.ok THEN n ELSE Ok(node, n.st)
        on_range(r) ==
            IF ~r.ok THEN r
            ELSE Fail(MessageWithLocation("Unexpected token.",
                                          get_position_by_range_start(r.val.range)), st)
        on_peek1(current_token, p1) ==
            IF ~p1.ok THEN p1
            ELSE IF p1.val.some /\ p1.val.token.kind = "LeftParen"
            THEN Parser_parse_tuple_variant(st)
            ELSE IF p1.val.some /\ p1.val.token.kind = "LeftBrace"
            THEN Parser_parse_struct_variant(st)
            ELSE on_next(VariantNode(current_token.type_name, current_token.name, "None", <<>>),
                         Parser_next_token(st))
        on_token(current_token) ==
            CASE current_token.kind = "Number" ->
                   on_next(convert_number_token(current_token), Parser_next_token(st))
              [] current_token.kind \in LiteralKinds ->
                   on_next([AsonNode(current_token.kind) EXCEPT !.name = current_token.name],
                           Parser_next_token(st))
              [] current_token.kind = "Variant" ->
                   on_peek1(current_token, Parser_peek_token(st, 1))
              [] current_token.kind = "LeftBrace" -> Parser_parse_object(st)
              [] current_token.kind = "LeftBracket" -> Parser_parse_list(st)
              [] current_token.kind = "LeftParen" -> Parser_parse_tuple(st)
              [] OTHER -> on_range(Parser_peek_range(st, 0))
        on_peek(p) ==
            IF ~p.ok THEN p
            ELSE IF ~p.val.some THEN Fail(UnexpectedEndOfDocument("Incomplete document."), st)
            ELSE on_token(p.val.token)
    IN on_peek(Parser_peek_token(st, 0))

\* parse_from_char_stream, without its check that the document has ended
parse_from_first_node(upstream) == Parser_parse_node(Parser_new(upstream))

\* parse_from_char_stream, from the Parser's construction on
parse_from(upstream) ==
    LET on_trailing(root, trailing) ==
            IF ~trailing.ok THEN trailing
            ELSE IF trailing.val.some
            THEN Fail(MessageWithLocation("Document has more than one node.",
                                          get_position_by_range_start(trailing.st.last_range)),
                      trailing.st)
            ELSE Ok(root.val, trailing.st)
        on_root(root) ==
            IF ~root.ok THEN root ELSE on_trailing(root, Parser_next_token(root.st))
    IN on_root(Parser_parse_node(Parser_new(upstream)))

----------------------------------------------------------------------------
(* The type T a caller of from_str asks for, as the requests its serde      *)
(* visitor makes: k is the request; elems are the element types (option,   *)
(* seq: one; map: key and value; tuple: one per position; struct: one per  *)
(* field; enum: one payload descriptor per member, of k "unit", "newtype", *)
(* "tuple" or "struct"); fields are the field or member names; name is the *)
(* declared name of an enum.                                               *)

Ty(k) == [k |-> k, name |-> "", fields |-> <<>>, elems |-> <<>>]

TyOf(k, elems) == [Ty(k) EXCEPT !.elems = elems]

TyNamed(k, name, fields, elems) == [k |-> k, name |-> name, fields |-> fields, elems |-> elems]

\* request -> <<token kind, number bucket, name used in the error message>>
PrimitiveRequests ==
    [bool |-> <<"Boolean", "", "a \"Boolean\"">>,
     i8 |-> <<"Number", "I8", "an \"i8\"">>, i16 |-> <<"Number", "I16", "an \"i16\"">>,
     i32 |-> <<"Number", "I32", "an \"i32\"">>, i64 |-> <<"Number", "I64", "an \"i64\"">>,
     u8 |-> <<"Number", "U8", "an \"u8\"">>, u16 |-> <<"Number", "U16", "an \"u16\"">>,
     u32 |-> <<"Number", "U32", "an \"u32\"">>, u64 |-> <<"Number", "U64", "an \"u64\"">>,
     f32 |-> <<"Number", "F32", "a \"f32\"">>, f64 |-> <<"Number", "F64", "a \"f64\"">>,
     char |-> <<"Char", "", "a \"Char\"">>, string |-> <<"String", "", "a \"String\"">>,
     bytes |-> <<"HexByteData", "", "a \"Bytes\"">>]

\* unreachable!(): the thread panics; nothing catches it before from_str's caller
Panic(msg) == [kind |-> "Panic", msg |-> msg, loc |-> new_range(0, 0)]

IsPanic(r) == ~r.ok /\ r.err.kind = "Panic"

----------------------------------------------------------------------------
(* serde/de.rs: Deserializer *)

Deserializer_from_token_peekable_iter(upstream) ==
    [upstream |-> upstream, last_range |-> new_range(0, 0)]

Deserializer_next_token(st) ==
    LET on_next(n) ==
            IF ~n.some THEN Ok(NoToken, [st EXCEPT !.upstream = n.rest])
            ELSE IF n.item.ok
            THEN Ok(SomeToken(n.item.token), [upstream |-> n.rest, last_range |-> n.item.range])
            ELSE Fail(n.item.err, [st EXCEPT !.upstream = n.rest])
    IN on_next(next(st.upstream))

Deserializer_peek_range(st, offset) ==
    LET on_peek(p) ==
            IF ~p.some THEN Ok([some |-> FALSE, range |-> new_range(0, 0)], st)
            ELSE IF p.item.ok THEN Ok([some |-> TRUE, range |-> p.item.range], st)
            ELSE Fail(p.item.err, st)
    IN on_peek(PeekableIter_peek(st.upstream, DeserializerPeekCount, offset))

Deserializer_peek_token(st, offset) ==
    LET on_peek(p) ==
            IF ~p.some THEN Ok(NoToken, st)
            ELSE IF p.item.ok THEN Ok(SomeToken(p.item.token), st)
            ELSE Fail(p.item.err, st)
    IN on_peek(PeekableIter_peek(st.upstream, DeserializerPeekCount, offset))

Deserializer_expect_token(st, offset, expected_token) ==
    LET on_peek(p) ==
            IF ~p.ok THEN p
            ELSE Ok(p.val.some /\ p.val.token.kind = expected_token, st)
    IN on_peek(Deserializer_peek_token(st, offset))

Deserializer_consume_new_line_if_exist(st) ==
    LET on_next(n) == IF n.ok THEN Ok(TRUE, n.st) ELSE n
        on_peek(p) ==
            IF ~p.ok THEN p
            ELSE IF p.val.some /\ p.val.token.kind = "NewLine"
            THEN on_next(Deserializer_next_token(st))
            ELSE Ok(FALSE, st)
    IN on_peek(Deserializer_peek_token(st, 0))

\* consume_new_line_or_comma_if_exist, were a NewLine no separator
Deserializer_consume_comma_if_exist(st) ==
    LET on_next(n) == IF n.ok THEN Ok(TRUE, n.st) ELSE n
        on_peek(p) ==
            IF ~p.ok THEN p
            ELSE IF p.val.some /\ p.val.token.kind = "Comma"
            THEN on_next(Deserializer_next_token(st))
            ELSE Ok(FALSE, st)
    IN on_peek(Deserializer_peek_token(st, 0))

Deserializer_consume_new_line_or_comma_if_exist(st) ==
    LET on_next(n) == IF n.ok THEN Ok(TRUE, n.st) ELSE n
        on_peek(p) ==
            IF ~p.ok THEN p
            ELSE IF p.val.some /\ p.val.token.kind \in {"NewLine", "Comma"}
            THEN on_next(Deserializer_next_token(st))
            ELSE Ok(FALSE, st)
    IN on_peek(Deserializer_peek_token(st, 0))

Deserializer_consume_token(st, expected_token, token_description) ==
    LET on_next(n) ==
            IF ~n.ok THEN n
            ELSE IF ~n.val.some
            THEN Fail(UnexpectedEndOfDocument("Expect token: \"" \o token_description \o "\"."),
                      n.st)
            ELSE IF n.val.token.kind = expected_token THEN Ok(TRUE, n.st)
            ELSE Fail(MessageWithLocation("Expect token: " \o token_description \o ".",
                                          get_position_by_range_start(n.st.last_range)), n.st)
    IN on_next(Deserializer_next_token(st))

Deserializer_consume_right_paren(st) ==
    Deserializer_consume_token(st, "RightParen", "close parenthese \")\"")

Deserializer_consume_right_bracket(st) ==
    Deserializer_consume_token(st, "RightBracket", "close bracket \"]\"")

Deserializer_consume_right_brace(st) ==
    Deserializer_consume_token(st, "RightBrace", "close brace \"}\"")

Deserializer_consume_colon(st) == Deserializer_consume_token(st, "Colon", "colon sign")

\* primitive requests that take a Number token of any bucket
deserialize_primitive_any_bucket(st, request) ==
    LET on_token(want, token, after) ==
            IF token.kind = want[1]
            THEN Ok(IF token.kind = "Number" THEN convert_number_token(token)
                    ELSE [AsonNode(token.kind) EXCEPT !.name = token.name], after)
            ELSE Fail(MessageWithLocation("Expect " \o want[3] \o " value.",
                                          get_position_by_range_start(after.last_range)), after)
        on_next(want, n) ==
            IF ~n.ok THEN n
            ELSE IF ~n.val.some
            THEN Fail(UnexpectedEndOfDocument("Expect " \o want[3] \o " value."), n.st)
            ELSE on_token(want, n.val.token, n.st)
    IN on_next(PrimitiveRequests[request], Deserializer_next_token(st))

\* deserialize_bool, deserialize_i8 .. deserialize_f64, deserialize_char,
\* deserialize_str/string, deserialize_bytes/byte_buf
deserialize_primitive(st, request) ==
    LET on_token(want, token, after) ==
            IF token.kind = want[1] /\ token.bucket = want[2]
            THEN Ok(IF token.kind = "Number" THEN convert_number_token(token)
                    ELSE [AsonNode(token.kind) EXCEPT !.name = token.name], after)
            ELSE Fail(MessageWithLocation("Expect " \o want[3] \o " value.",
                                          get_position_by_range_start(after.last_range)), after)
        on_next(want, n) ==
            IF ~n.ok THEN n
            ELSE IF ~n.val.some
            THEN Fail(UnexpectedEndOfDocument("Expect " \o want[3] \o " value."), n.st)
            ELSE on_token(want, n.val.token, n.st)
    IN on_next(PrimitiveRequests[request], Deserializer_next_token(st))

deserialize_identifier(st) ==
    LET on_next(n) ==
            IF ~n.ok THEN n
            ELSE IF ~n.val.some
            THEN Fail(UnexpectedEndOfDocument("Expect an identifier for object."), n.st)
            ELSE IF n.val.token.kind = "Identifier" THEN Ok(n.val.token.name, n.st)
            ELSE Fail(MessageWithLocation("Expect an identifier for object.",
                                          get_position_by_range_start(n.st.last_range)), n.st)
    IN on_next(Deserializer_next_token(st))

SomeValue(value) == [some |-> TRUE, value |-> value]

NoValue == [some |-> FALSE, value |-> NoNode]

OptionNode(member_name, items) ==
    VariantNode("Option", member_name, IF items = <<>> THEN "None" ELSE "Value", items)

IndexOf(names, name) == CHOOSE i \in 1..Len(names) : names[i] = name

Contains(names, name) == \E i \in 1..Len(names) : names[i] = name

\* T::deserialize(&mut deserializer): the request the type's Deserialize impl makes
RECURSIVE deserialize(_, _)
RECURSIVE visit_seq_vec(_, _, _, _)
RECURSIVE visit_seq_tuple(_, _, _, _)
RECURSIVE visit_map_hashmap(_, _, _, _, _)
RECURSIVE visit_map_struct(_, _, _, _)

\* `seed.deserialize(&mut *self.de).map(Some)`
map_Some(value) == IF ~value.ok THEN value ELSE Ok(SomeValue(value.val), value.st)

\* the separator an accessor takes before an element: a NewLine before the
\* first one, a NewLine or a Comma before the others
Accessor_exists_separator(st, is_first_element) ==
    IF is_first_element THEN Deserializer_consume_new_line_if_exist(st)
    ELSE Deserializer_consume_new_line_or_comma_if_exist(st)

\* "Expect a comma or new-line." at `self.de.peek_range(0)?.unwrap()`
Accessor_expect_separator(st) ==
    LET on_range(r) ==
            IF ~r.ok THEN r
            ELSE Fail(MessageWithLocation("Expect a comma or new-line.",
                                          get_position_by_range_start(r.val.range)), st)
    IN on_range(Deserializer_peek_range(st, 0))

ArrayAccessor_next_element_seed(st, is_first_element, seed) ==
    LET on_peek(exists_separator, p) ==
            IF ~p.ok THEN p
            ELSE IF ~p.val.some THEN Fail(UnexpectedEndOfDocument("Incomplete List."), p.st)
            ELSE IF ~is_first_element /\ ~exists_separator.val
            THEN Accessor_expect_separator(p.st)
            ELSE map_Some(deserialize(p.st, seed))
        on_close(exists_separator, close) ==
            IF ~close.ok THEN close
            ELSE IF close.val THEN Ok(NoValue, close.st)
            ELSE on_peek(exists_separator, Deserializer_peek_token(close.st, 0))
        on_separator(exists_separator) ==
            IF ~exists_separator.ok THEN exists_separator
            ELSE on_close(exists_separator,
                          Deserializer_expect_token(exists_separator.st, 0, "RightBracket"))
    IN on_separator(Accessor_exists_separator(st, is_first_element))

TupleAccessor_next_element_seed(st, is_first_element, seed) ==
    LET on_peek(exists_separator, p) ==
            IF ~p.ok THEN p
            ELSE IF ~p.val.some THEN Fail(UnexpectedEndOfDocument("Incomplete Tuple."), p.st)
            ELSE IF ~is_first_element /\ ~exists_separator.val
            THEN Accessor_expect_separator(p.st)
            ELSE map_Some(deserialize(p.st, seed))
        on_separator(exists_separator) ==
            IF ~exists_separator.ok THEN exists_separator
            ELSE on_peek(exists_separator, Deserializer_peek_token(exists_separator.st, 0))
    IN on_separator(Accessor_exists_separator(st, is_first_element))

\* MapAccessor::next_key_seed and ObjectAccessor::next_key_seed, which differ in
\* the closer and in the message only; the key is a value of type seed, or the
\* identifier itself for the field of a struct (seed.k = "identifier")
Accessor_next_key_seed(st, is_first_element, seed, closer, what) ==
    LET on_peek(exists_separator, p) ==
            IF ~p.ok THEN p
            ELSE IF ~p.val.some
            THEN Fail(UnexpectedEndOfDocument("Incomplete " \o what \o "."), p.st)
            ELSE IF ~is_first_element /\ ~exists_separator.val
            THEN Accessor_expect_separator(p.st)
            ELSE IF seed.k = "identifier" THEN map_Some(deserialize_identifier(p.st))
            ELSE map_Some(deserialize(p.st, seed))
        on_close(exists_separator, close) ==
            IF ~close.ok THEN close
            ELSE IF close.val THEN Ok(NoValue, close.st)
            ELSE on_peek(exists_separator, Deserializer_peek_token(close.st, 0))
        on_separator(exists_separator) ==
            IF ~exists_separator.ok THEN exists_separator
            ELSE on_close(exists_separator,
                          Deserializer_expect_token(exists_separator.st, 0, closer))
    IN on_separator(Accessor_exists_separator(st, is_first_element))

MapAccessor_next_key_seed(st, is_first_element, seed) ==
    Accessor_next_key_seed(st, is_first_element, seed, "RightBracket", "Map")

ObjectAccessor_next_key_seed(st, is_first_element) ==
    Accessor_next_key_seed(st, is_first_element, Ty("identifier"), "RightBrace", "Object")

\* MapAccessor::next_value_seed and ObjectAccessor::next_value_seed
Accessor_next_value_seed(st, seed) ==
    LET on_newline2(newline2) ==
            IF ~newline2.ok THEN newline2 ELSE deserialize(newline2.st, seed)
        on_colon(colon) ==
            IF ~colon.ok THEN colon
            ELSE on_newline2(Deserializer_consume_new_line_if_exist(colon.st))
        on_newline1(newline1) ==
            IF ~newline1.ok THEN newline1
            ELSE on_colon(Deserializer_consume_colon(newline1.st))
    IN on_newline1(Deserializer_consume_new_line_if_exist(st))

\* Vec<T>'s visitor: next_element until None
visit_seq_vec(st, is_first_element, seed, items) ==
    LET on_element(e) ==
            IF ~e.ok THEN e
            ELSE IF ~e.val.some THEN Ok(items, e.st)
            ELSE visit_seq_vec(e.st, FALSE, seed, Append(items, e.val.value))
    IN on_element(ArrayAccessor_next_element_seed(st, is_first_element, seed))

\* the visitor of a tuple of N: next_element once per position
visit_seq_tuple(st, is_first_element, seeds, items) ==
    LET on_element(e) ==
            IF ~e.ok THEN e
            ELSE visit_seq_tuple(e.st, FALSE, Tail(seeds), Append(items, e.val.value))
    IN IF seeds = <<>> THEN Ok(items, st)
       ELSE on_element(TupleAccessor_next_element_seed(st, is_first_element, Head(seeds)))

\* HashMap::insert: the value of a key already present is replaced
insert(nvps, key, value) ==
    IF \E i \in 1..Len(nvps) : nvps[i].name = key
    THEN [i \in 1..Len(nvps) |->
             IF nvps[i].name = key THEN NameValuePair(key, value) ELSE nvps[i]]
    ELSE Append(nvps, NameValuePair(key, value))

\* a map type's visitor: next_key until None, next_value after each key
visit_map_hashmap(st, is_first_element, key_seed, value_seed, nvps) ==
    LET on_value(key, v) ==
            IF ~v.ok THEN v
            ELSE visit_map_hashmap(v.st, FALSE, key_seed, value_seed, insert(nvps, key, v.val))
        on_key(k) ==
            IF ~k.ok THEN k
            ELSE IF ~k.val.some THEN Ok(nvps, k.st)
            ELSE on_value(k.val.value, Accessor_next_value_seed(k.st, value_seed))
    IN on_key(MapAccessor_next_key_seed(st, is_first_element, key_seed))

\* a derived struct visitor: next_key until None; a known field's value is
\* decoded once, an unknown field's value is skipped as IgnoredAny, and the
\* fields the document left out are None when they are options
visit_map_struct(st, is_first_element, ty, kvps) ==
    LET missing == {i \in 1..Len(ty.fields) :
                        \A j \in 1..Len(kvps) : kvps[j].key # ty.fields[i]}
        on_value(name, v) ==
            IF ~v.ok THEN v
            ELSE visit_map_struct(v.st, FALSE, ty, Append(kvps, KeyValuePair(name, v.val)))
        on_name(name, after) ==
            IF ~Contains(ty.fields, name)
            THEN on_value(name, Accessor_next_value_seed(after, Ty("ignored_any")))
            ELSE IF \E i \in 1..Len(kvps) : kvps[i].key = name
            THEN Fail(Message("duplicate field"), after)
            ELSE on_value(name, Accessor_next_value_seed(after,
                                    ty.elems[IndexOf(ty.fields, name)]))
        on_key(k) ==
            IF ~k.ok THEN k
            ELSE IF ~k.val.some
            THEN IF \E i \in missing : ty.elems[i].k # "option"
                 THEN Fail(Message("missing field"), k.st)
                 ELSE Ok(kvps, k.st)
            ELSE on_name(k.val.value, k.st)
    IN on_key(ObjectAccessor_next_key_seed(st, is_first_element))

deserialize_option(st, seed) ==
    LET on_close(v, close) ==
            IF ~close.ok THEN close
            ELSE IF ~v.ok THEN Fail(v.err, close.st)
            ELSE Ok(OptionNode("Some", <<v.val>>), close.st)
        \* `let v = visitor.visit_some(&mut *self); self.consume_right_paren()?; v`
        on_some(v) == IF IsPanic(v) THEN v ELSE on_close(v, Deserializer_consume_right_paren(v.st))
        on_open(open) == IF ~open.ok THEN open ELSE on_some(deserialize(open.st, seed))
        \* `*self.peek_range(0)?.unwrap()`
        on_range(range, after) ==
            IF ~range.ok THEN range
            ELSE IF ~range.val.some
            THEN Fail(Panic("called Option::unwrap() on a None value"), after)
            ELSE Fail(MessageWithLocation("Invalid member of variant \"Option\".",
                                          range.val.range), after)
        on_paren(member_name, paren, after) ==
            IF ~paren.ok THEN paren
            ELSE IF member_name = "None" /\ ~paren.val THEN Ok(OptionNode("None", <<>>), after)
            ELSE IF member_name = "Some" /\ paren.val THEN on_open(Deserializer_next_token(after))
            ELSE on_range(Deserializer_peek_range(after, 0), after)
        on_token(token, after) ==
            IF token.kind # "Variant"
            THEN Fail(MessageWithLocation("Expect the \"Option\" type of variant.",
                                          get_position_by_range_start(after.last_range)), after)
            ELSE IF token.type_name # "Option"
            THEN Fail(MessageWithLocation("Expect the \"Option\" type of variant.",
                                          after.last_range), after)
            ELSE IF token.name \in {"None", "Some"}
            THEN on_paren(token.name, Deserializer_expect_token(after, 0, "LeftParen"), after)
            ELSE on_range(Deserializer_peek_range(after, 0), after)
        on_next(n) ==
            IF ~n.ok THEN n
            ELSE IF ~n.val.some
            THEN Fail(UnexpectedEndOfDocument("Expect the \"Option\" type of variant."), n.st)
            ELSE on_token(n.val.token, n.st)
    IN on_next(Deserializer_next_token(st))

\* `match self.next_token()?` of deserialize_seq, deserialize_tuple,
\* deserialize_map and deserialize_struct: the opener, or the error for `what`
Deserializer_open(st, opener, what) ==
    LET on_next(n) ==
            IF ~n.ok THEN n
            ELSE IF ~n.val.some THEN Fail(UnexpectedEndOfDocument("Expect " \o what \o "."), n.st)
            ELSE IF n.val.token.kind # opener
            THEN Fail(MessageWithLocation("Expect " \o what \o ".",
                                          get_position_by_range_start(n.st.last_range)), n.st)
            ELSE n
    IN on_next(Deserializer_next_token(st))

deserialize_seq(st, seed) ==
    LET on_close(value, close) ==
            IF ~close.ok THEN close
            ELSE Ok([AsonNode("List") EXCEPT !.items = value.val], close.st)
        on_value(value) ==
            IF ~value.ok THEN value
            ELSE on_close(value, Deserializer_consume_right_bracket(value.st))
        on_open(open) ==
            IF ~open.ok THEN open ELSE on_value(visit_seq_vec(open.st, TRUE, seed, <<>>))
    IN on_open(Deserializer_open(st, "LeftBracket", "a \"List\""))

\* the Ok value is the sequence of the tuple's items
deserialize_tuple(st, seeds) ==
    LET on_close(value, close) == IF ~close.ok THEN close ELSE Ok(value.val, close.st)
        on_sep(value, sep) ==
            IF ~sep.ok THEN sep ELSE on_close(value, Deserializer_consume_right_paren(sep.st))
        on_value(value) ==
            IF ~value.ok THEN value
            ELSE on_sep(value, Deserializer_consume_new_line_or_comma_if_exist(value.st))
        on_open(open) ==
            IF ~open.ok THEN open ELSE on_value(visit_seq_tuple(open.st, TRUE, seeds, <<>>))
    IN on_open(Deserializer_open(st, "LeftParen", "a \"Tuple\""))

deserialize_map(st, key_seed, value_seed) ==
    LET on_close(value, close) ==
            IF ~close.ok THEN close
            ELSE Ok([AsonNode("Map") EXCEPT !.items = value.val], close.st)
        on_value(value) ==
            IF ~value.ok THEN value
            ELSE on_close(value, Deserializer_consume_right_bracket(value.st))
        on_open(open) ==
            IF ~open.ok THEN open
            ELSE on_value(visit_map_hashmap(open.st, TRUE, key_seed, value_seed, <<>>))
    IN on_open(Deserializer_open(st, "LeftBracket", "a \"Map\""))

\* the Ok value is the sequence of the struct's key-value pairs
deserialize_struct(st, ty) ==
    LET on_close(value, close) == IF ~close.ok THEN close ELSE Ok(value.val, close.st)
        on_value(value) ==
            IF ~value.ok THEN value
            ELSE on_close(value, Deserializer_consume_right_brace(value.st))
        on_open(open) ==
            IF ~open.ok THEN open ELSE on_value(visit_map_struct(open.st, TRUE, ty, <<>>))
    IN on_open(Deserializer_open(st, "LeftBrace", "an \"Object\""))

VariantAccessor_unit_variant(st) == Fail(Panic("internal error: entered unreachable code"), st)

VariantAccessor_newtype_variant_seed(st, seed) ==
    LET \* `self.de.next_token()?; // consume ')'` and then `v`
        on_close(v, close) ==
            IF ~close.ok THEN close
            ELSE IF ~v.ok THEN Fail(v.err, close.st)
            ELSE Ok(v.val, close.st)
        on_newline2(v, newline2) ==
            IF ~newline2.ok THEN newline2 ELSE on_close(v, Deserializer_next_token(newline2.st))
        on_value(v) ==
            IF IsPanic(v) THEN v
            ELSE on_newline2(v, Deserializer_consume_new_line_if_exist(v.st))
        on_newline1(newline1) ==
            IF ~newline1.ok THEN newline1 ELSE on_value(deserialize(newline1.st, seed))
        on_open(open) ==
            IF ~open.ok THEN open
            ELSE on_newline1(Deserializer_consume_new_line_if_exist(open.st))
    IN on_open(Deserializer_next_token(st))

VariantAccessor_tuple_variant(st, seeds) == deserialize_tuple(st, seeds)

VariantAccessor_struct_variant(st, ty) == deserialize_struct(st, ty)

\* a derived enum visitor on the EnumAccess it is given: the member is looked
\* up by name, then the payload is asked for in the member's declared style
visit_enum(st, ty, member_name, has_payload) ==
    LET form(member) ==
            CASE member.k = "unit" -> "None" [] member.k = "newtype" -> "Value"
              [] member.k = "tuple" -> "Tuple" [] OTHER -> "Object"
        on_payload(member, payload) ==
            IF ~payload.ok THEN payload
            ELSE Ok(VariantNode(ty.name, member_name, form(member),
                                IF member.k = "newtype" THEN <<payload.val>> ELSE payload.val),
                    payload.st)
        on_member(member) ==
            CASE member.k = "unit" ->
                   IF has_payload THEN VariantAccessor_unit_variant(st)
                   ELSE on_payload(member, Ok(<<>>, st))
              [] member.k = "newtype" ->
                   IF has_payload
                   THEN on_payload(member,
                                   VariantAccessor_newtype_variant_seed(st, member.elems[1]))
                   ELSE Fail(Message("invalid type: unit variant, expected newtype variant"), st)
              [] member.k = "tuple" ->
                   IF has_payload
                   THEN on_payload(member, VariantAccessor_tuple_variant(st, member.elems))
                   ELSE Fail(Message("invalid type: unit variant, expected tuple variant"), st)
              [] OTHER ->
                   IF has_payload
                   THEN on_payload(member, VariantAccessor_struct_variant(st, member))
                   ELSE Fail(Message("invalid type: unit variant, expected struct variant"), st)
    IN IF ~Contains(ty.fields, member_name) THEN Fail(Message("unknown variant"), st)
       ELSE on_member(ty.elems[IndexOf(ty.fields, member_name)])

deserialize_enum(st, ty) ==
    LET on_brace(token, brace, after) ==
            IF ~brace.ok THEN brace
            ELSE visit_enum(after, ty, token.name, brace.val)
        on_paren(token, paren, after) ==
            IF ~paren.ok THEN paren
            ELSE IF paren.val THEN visit_enum(after, ty, token.name, TRUE)
            ELSE on_brace(token, Deserializer_expect_token(after, 0, "LeftBrace"), after)
        on_token(token, after) ==
            IF token.kind # "Variant"
            THEN Fail(MessageWithLocation("Expect a \"Variant\".",
                                          get_position_by_range_start(after.last_range)), after)
            ELSE IF token.type_name # ty.name
            THEN Fail(MessageWithLocation("Expect the type \"" \o ty.name \o "\" of variant.",
                                          after.last_range), after)
            ELSE on_paren(token, Deserializer_expect_token(after, 0, "LeftParen"), after)
        on_next(n) ==
            IF ~n.ok THEN n
            ELSE IF ~n.val.some THEN Fail(UnexpectedEndOfDocument("Expect a \"Variant\"."), n.st)
            ELSE on_token(n.val.token, n.st)
    IN on_next(Deserializer_next_token(st))

deserialize(st, ty) ==
    LET on_tuple(r) ==
            IF r.ok THEN Ok([AsonNode("Tuple") EXCEPT !.items = r.val], r.st) ELSE r
        on_struct(r) ==
            IF r.ok THEN Ok([AsonNode("Object") EXCEPT !.items = r.val], r.st) ELSE r
    IN CASE ty.k \in DOMAIN PrimitiveRequests -> deserialize_primitive(st, ty.k)
         [] ty.k = "option" -> deserialize_option(st, ty.elems[1])
         [] ty.k = "seq" -> deserialize_seq(st, ty.elems[1])
         [] ty.k = "tuple" -> on_tuple(deserialize_tuple(st, ty.elems))
         [] ty.k = "map" -> deserialize_map(st, ty.elems[1], ty.elems[2])
         [] ty.k = "struct" -> on_struct(deserialize_struct(st, ty))
         [] ty.k = "enum" -> deserialize_enum(st, ty)
         [] ty.k = "any" ->
              Fail(MessageWithLocation("Unexpected value.",
                                       get_position_by_range_start(st.last_range)), st)
         [] ty.k = "unit" -> Fail(Message("Does not support Unit."), st)
         [] ty.k = "unit_struct" -> Fail(Message("Does not support \"Unit\" style Struct."), st)
         [] ty.k = "newtype_struct" ->
              Fail(Message("Does not support \"New-Type\" style Struct."), st)
         [] ty.k = "tuple_struct" -> Fail(Message("Does not support \"Tuple\" style Struct."), st)
         [] OTHER -> Fail(Panic("internal error: entered unreachable code"), st)

\* from_char_stream, from the Deserializer's construction on
from_char_stream(upstream, ty) ==
    LET on_peek(value, p) ==
            IF ~p.some THEN value
            ELSE IF ~p.item.ok THEN Fail(p.item.err, value.st)
            ELSE Fail(MessageWithLocation("Document has more than one node.",
                                          get_position_by_range_start(p.item.range)), value.st)
        on_value(value) ==
            IF ~value.ok THEN value
            ELSE on_peek(value, PeekableIter_peek(value.st.upstream, DeserializerPeekCount, 0))
    IN on_value(deserialize(Deserializer_from_token_peekable_iter(upstream), ty))

----------------------------------------------------------------------------
(* The pipeline parse_from_char_stream and from_char_stream wire up, one    *)
(* action per call of a stage's next().  A stage runs when its upstream has *)
(* been drained: the stages share no state, so the items each one emits do  *)
(* not depend on how their calls interleave.                                *)

CleanNext ==
    /\ pc = "clean"
    /\ LET r == clean(lexer)
       IN /\ lexer' = r.rest
          /\ cleared' = IF r.some THEN Append(cleared, r.item) ELSE cleared
          /\ pc' = IF r.some THEN "clean" ELSE "normalize"
    /\ UNCHANGED <<source, schema, normalized, trimmed, parsed, decoded>>

NormalizeNext ==
    /\ pc = "normalize"
    /\ LET r == normalize(cleared)
       IN /\ cleared' = r.rest
          /\ normalized' = IF r.some THEN Append(normalized, r.item) ELSE normalized
          /\ pc' = IF r.some THEN "normalize" ELSE "trim_new"
    /\ UNCHANGED <<source, schema, lexer, trimmed, parsed, decoded>>

TrimNew ==
    /\ pc = "trim_new"
    /\ normalized' = TrimmedTokenIter_new(normalized)
    /\ pc' = "trim"
    /\ UNCHANGED <<source, schema, lexer, cleared, trimmed, parsed, decoded>>

TrimNext ==
    /\ pc = "trim"
    /\ LET r == trim(normalized)
       IN /\ normalized' = r.rest
          /\ trimmed' = IF r.some THEN Append(trimmed, r.item) ELSE trimmed
          /\ pc' = IF r.some THEN "trim" ELSE "parse"
    /\ UNCHANGED <<source, schema, lexer, cleared, parsed, decoded>>

Outcome(r) == [ok |-> r.ok, val |-> r.val, err |-> r.err]

NoOutcome == [ok |-> FALSE, val |-> NoNode, err |-> NoError]

ParseFrom ==
    /\ pc = "parse"
    /\ parsed' = Outcome(parse_from(trimmed))
    /\ pc' = "decode"
    /\ UNCHANGED <<source, schema, lexer, cleared, normalized, trimmed, decoded>>

FromStr ==
    /\ pc = "decode"
    /\ decoded' = Outcome(from_char_stream(trimmed, schema))
    /\ pc' = "done"
    /\ UNCHANGED <<source, schema, lexer, cleared, normalized, trimmed, parsed>>

Next == CleanNext \/ NormalizeNext \/ TrimNew \/ TrimNext \/ ParseFrom \/ FromStr

----------------------------------------------------------------------------
(* Documents *)

\* the length in bytes of a token's text
TokenLength(token) ==
    CASE token.kind \in {"Number", "Comment"} -> 3
      [] token.kind = "Variant" -> 4
      [] token.kind \in LiteralKinds -> 2
      [] OTHER -> 1

\* the lexer's items for a document given as its tokens: each token's range
\* starts where the previous token's range ends
RECURSIVE Lexer(_, _)
Lexer(tokens, index) ==
    IF tokens = <<>> THEN <<>>
    ELSE <<TokenWithRange(Head(tokens), new_range(index, TokenLength(Head(tokens))))>>
         \o Lexer(Tail(tokens), index + TokenLength(Head(tokens)))

Document(tokens, ty) == [tokens |-> tokens, ty |-> ty]

InitWith(documents) ==
    /\ \E d \in documents : source = Lexer(d.tokens, 0) /\ schema = d.ty
    /\ lexer = source
    /\ cleared = <<>>
    /\ normalized = <<>>
    /\ trimmed = <<>>
    /\ pc = "clean"
    /\ parsed = NoOutcome
    /\ decoded = NoOutcome

\* every token sequence of length 0..n over an alphabet
SeqsUpTo(alphabet, n) == UNION {[1..k -> alphabet] : k \in 0..n}

MaxStreamLen == 4

I8(n) == NumberToken("I8", <<n>>)

StreamAlphabet ==
    {Token("NewLine"), Token("Comma"), Token("Comment"), Token("Plus"), Token("Minus"),
     Token("LeftParen"), I8(1), I8(200)}

Streams == {Document(s, TyOf("seq", <<Ty("i8")>>)) : s \in SeqsUpTo(StreamAlphabet, MaxStreamLen)}

InitStreams == InitWith(Streams)

SpecStreams == InitStreams /\ [][Next]_vars

\* ---------------------------------------------------------------------
\* Documents: one container of up to MaxElems items, each item a value or a
\* key: value entry, laid out with commas, with newlines, with a trailing
\* comma or with no separator at all, and the type it is decoded as

MaxElems == 2

I32(n) == NumberToken("I32", <<0, 0, 0, n>>)

Int32 == Ty("i32")

AtomEnum == TyNamed("enum", "T", <<"A", "N">>, <<Ty("unit"), TyOf("newtype", <<Int32>>)>>)

Item(tokens, ty) == [tokens |-> tokens, ty |-> ty, is_entry |-> FALSE, key_ty |-> ty]

Entry(key, colon, value) ==
    [tokens |-> key.tokens \o colon \o value.tokens, ty |-> value.ty,
     is_entry |-> TRUE, key_ty |-> key.ty]

Atoms ==
    {Item(<<I32(1)>>, Int32),
     Item(<<Variant("T", "A")>>, AtomEnum),
     Item(<<Variant("T", "N"), Token("LeftParen"), I32(1), Token("RightParen")>>, AtomEnum),
     Item(<<Variant("Option", "None")>>, TyOf("option", <<Int32>>)),
     Item(<<Variant("Option", "Some"), Token("LeftParen"), I32(1), Token("RightParen")>>,
          TyOf("option", <<Int32>>)),
     Item(<<Token("LeftParen"), I32(1), Token("Comma"), I32(2), Token("RightParen")>>,
          TyOf("tuple", <<Int32, Int32>>)),
     Item(<<Token("LeftParen"), Token("RightParen")>>, TyOf("tuple", <<>>)),
     Item(<<Token("LeftBrace"), Identifier("a"), Token("Colon"), I32(1), Token("RightBrace")>>,
          TyNamed("struct", "", <<"a">>, <<Int32>>))}

Entries ==
    {Entry(Item(<<I32(1)>>, Int32), <<Token("Colon")>>, Item(<<I32(2)>>, Int32)),
     Entry(Item(<<I32(2)>>, Int32), <<Token("NewLine"), Token("Colon")>>, Item(<<I32(1)>>, Int32)),
     Entry(Item(<<I32(3)>>, Int32), <<Token("Colon"), Token("NewLine")>>, Item(<<I32(1)>>, Int32)),
     Entry(Item(<<Token("LeftParen"), I32(1), Token("Comma"), I32(2), Token("RightParen")>>,
                TyOf("tuple", <<Int32, Int32>>)),
           <<Token("Colon")>>, Item(<<Variant("T", "A")>>, AtomEnum))}

RECURSIVE Join(_, _)
Join(items, sep) ==
    IF items = <<>> THEN <<>>
    ELSE IF Len(items) = 1 THEN items[1].tokens
    ELSE items[1].tokens \o sep \o Join(Tail(items), sep)

Layouts == {"comma", "newline", "trailing", "none"}

Build(open, items, close, layout) ==
    CASE layout = "comma" -> open \o Join(items, <<Token("Comma")>>) \o close
      [] layout = "newline" ->
           open \o <<Token("NewLine")>> \o Join(items, <<Token("NewLine")>>)
                \o <<Token("NewLine")>> \o close
      [] layout = "trailing" ->
           open \o Join(items, <<Token("Comma")>>) \o <<Token("Comma")>> \o close
      [] OTHER -> open \o Join(items, <<>>) \o close

Types(items) == [i \in 1..Len(items) |-> items[i].ty]

FieldNames == <<"a", "b", "c", "d">>

Fields(items) ==
    [i \in 1..Len(items) |->
        Item(<<Identifier(FieldNames[i]), Token("Colon")>> \o items[i].tokens, items[i].ty)]

StructTy(items) == TyNamed("struct", "", SubSeq(FieldNames, 1, Len(items)), Types(items))

EnumWith(member, ty) ==
    TyNamed("enum", "T", <<"A", "N", member>>,
            <<Ty("unit"), TyOf("newtype", <<Int32>>), ty>>)

ListDocument(items, layout) ==
    Document(Build(<<Token("LeftBracket")>>, items, <<Token("RightBracket")>>, layout),
             IF items = <<>> THEN TyOf("seq", <<Int32>>)
             ELSE IF items[1].is_entry THEN TyOf("map", <<items[1].key_ty, items[1].ty>>)
             ELSE TyOf("seq", <<items[1].ty>>))

TupleDocument(items, layout) ==
    Document(Build(<<Token("LeftParen")>>, items, <<Token("RightParen")>>, layout),
             TyOf("tuple", Types(items)))

ObjectDocument(items, layout) ==
    Document(Build(<<Token("LeftBrace")>>, Fields(items), <<Token("RightBrace")>>, layout),
             StructTy(items))

TupleVariantDocument(items, layout) ==
    Document(Build(<<Variant("T", "P"), Token("LeftParen")>>, items, <<Token("RightParen")>>, layout),
             EnumWith("P", TyOf("tuple", Types(items))))

NewtypeVariantDocument(items, layout) ==
    Document(Build(<<Variant("T", "P"), Token("LeftParen")>>, items, <<Token("RightParen")>>, layout),
             EnumWith("P", TyOf("newtype", <<items[1].ty>>)))

StructVariantDocument(items, layout) ==
    Document(Build(<<Variant("T", "S"), Token("LeftBrace")>>, Fields(items),
                   <<Token("RightBrace")>>, layout),
             EnumWith("S", StructTy(items)))

OptionDocument(items, layout) ==
    Document(Build(<<Variant("Option", "Some"), Token("LeftParen")>>, items,
                   <<Token("RightParen")>>, layout),
             TyOf("option", <<items[1].ty>>))

DocumentsIn(layout) ==
    {ListDocument(items, layout) : items \in SeqsUpTo(Atoms \cup Entries, MaxElems)}
    \cup UNION {{TupleDocument(items, layout), ObjectDocument(items, layout),
                 TupleVariantDocument(items, layout), StructVariantDocument(items, layout)} :
                    items \in SeqsUpTo(Atoms, MaxElems)}
    \cup UNION {{NewtypeVariantDocument(items, layout), OptionDocument(items, layout)} :
                    items \in [1..1 -> Atoms]}

\* what may follow the root value in the document
Extras == {<<Token("NewLine")>>, <<I32(1)>>, <<Token("NewLine"), I32(1)>>}

FollowedBy(extra) == {Document(d.tokens \o extra, d.ty) : d \in DocumentsIn("comma")}

Init ==
    \/ \E layout \in Layouts : InitWith(DocumentsIn(layout))
    \/ \E extra \in Extras : InitWith(FollowedBy(extra))

Spec == Init /\ [][Next]_vars

\* ---------------------------------------------------------------------
\* Blank tokens in the normalized stream

IsKindAt(items, i, kind) == i \in 1..Len(items) /\ IsToken(items[i], kind)

AdjacentBlanks(items) ==
    \E i \in 1..(Len(items) - 1) :
        \/ IsKindAt(items, i, "NewLine") /\ IsKindAt(items, i + 1, "NewLine")
        \/ IsKindAt(items, i, "NewLine") /\ IsKindAt(items, i + 1, "Comma")
        \/ IsKindAt(items, i, "Comma") /\ IsKindAt(items, i + 1, "NewLine")

\* C1: for every error-free token stream, comments included, the stream
\* emitted by the comment stripper followed by the normalizer has no two
\* adjacent NewLine tokens, no NewLine immediately followed by a Comma and
\* no Comma immediately followed by a NewLine.
C1_NoAdjacentBlanks ==
    pc \in {"normalize", "trim_new"} => ~AdjacentBlanks(normalized)

\* The source holds NewLine Comment NewLine and a Comma next to a NewLine,
\* and the normalizer has emitted its whole output, a Comma included.
C1_Witness ==
    /\ pc = "trim_new"
    /\ \E i \in 1..Len(source) :
          IsKindAt(source, i, "NewLine") /\ IsKindAt(source, i + 1, "Comment")
              /\ IsKindAt(source, i + 2, "NewLine")
    /\ \E i \in 1..Len(source) :
          IsKindAt(source, i, "Comma") /\ IsKindAt(source, i + 1, "NewLine")
    /\ \E i \in 1..Len(normalized) : IsKindAt(normalized, i, "Comma")

\* ---------------------------------------------------------------------
\* Signed integer literals: documents of one literal, with or without a sign

NumSpread == 2

ByteLen(bucket) == Width(bucket) \div 8

Small(n, k) == [i \in 1..n |-> IF i = n THEN k ELSE 0]

\* the stored values the lexer emits for a literal of n bytes, around
\* 0, iN::MAX, iN::MAX + 1 and uN::MAX
NumValues(n) ==
    UNION {{Small(n, k),
            WrappingNeg(Small(n, k + 1)),
            MulAdd(SignedMinMagnitude(n), 1, k)[1],
            WrappingNeg(MulAdd(SignedMinMagnitude(n), 1, k + 1)[1])} : k \in 0..NumSpread}

NumDocuments ==
    {Document(prefix \o sign \o <<NumberToken(bucket, val)>>, Ty(BucketName(bucket))) :
        prefix \in {<<>>, <<Token("NewLine")>>},
        sign \in {<<>>, <<Token("Plus")>>, <<Token("Minus")>>, <<Token("Comment")>>},
        bucket \in SignedBuckets,
        val \in UNION {NumValues(ByteLen(b)) : b \in SignedBuckets}}

InitNum == InitWith({d \in NumDocuments :
                        Len(d.tokens[Len(d.tokens)].val) = ByteLen(d.tokens[Len(d.tokens)].bucket)})

SpecNum == InitNum /\ [][Next]_vars

Literal == source[Len(source)]

\* the literal is written without a sign: only blanks and comments precede it
IsUnsignedLiteral ==
    /\ Len(source) > 0
    /\ IsToken(Literal, "Number") /\ Literal.token.bucket \in SignedBuckets
    /\ \A i \in 1..(Len(source) - 1) :
          IsToken(source[i], "NewLine") \/ IsToken(source[i], "Comment")

\* the literal directly follows a Minus token
IsMinusLiteral ==
    /\ Len(source) > 1
    /\ IsToken(Literal, "Number") /\ Literal.token.bucket \in SignedBuckets
    /\ IsToken(source[Len(source) - 1], "Minus")
    /\ \A i \in 1..(Len(source) - 2) : IsToken(source[i], "NewLine")

\* n <= iN::MAX: the top bit of the stored value is clear
AtMostSignedMax(val) == val[1] < 128

\* n = 2^(x-1): only the top bit of the stored value is set
IsTwoToTheWidthMinusOne(val) == val[1] = 128 /\ \A i \in 2..Len(val) : val[i] = 0

ParseDone == pc \in {"decode", "done"}

\* C2: a signed-integer literal n_Ix written without a sign parses iff
\* 0 <= n <= Ix::MAX; when n > Ix::MAX the result is a positioned overflow
\* error whose range is exactly the range of the literal.
C2_UnsignedLiteralRange ==
    (ParseDone /\ IsUnsignedLiteral) =>
        /\ parsed.ok <=> AtMostSignedMax(Literal.token.val)
        /\ parsed.ok =>
              /\ parsed.val.ntype = "Number" /\ parsed.val.bucket = Literal.token.bucket
              /\ parsed.val.val = Literal.token.val /\ ~parsed.val.neg
        /\ ~parsed.ok =>
              /\ parsed.err.kind = "MessageWithLocation"
              /\ parsed.err.msg = "The " \o BucketName(Literal.token.bucket) \o " number is overflowed."
              /\ parsed.err.loc = Literal.range

\* The literal 2^63 of type i64 on the second line, without a sign, is rejected.
C2_Witness ==
    /\ ParseDone /\ IsUnsignedLiteral /\ ~parsed.ok
    /\ Literal.token.bucket = "I64"
    /\ IsTwoToTheWidthMinusOne(Literal.token.val)
    /\ Literal.range.index > 0

\* C3 as stated: a Minus followed by a signed-integer literal n_Ix parses
\* iff 1 <= n <= 2^(x-1), and every other n is an error.
C3_MinusLiteralRangeExcludesZero ==
    (ParseDone /\ IsMinusLiteral) =>
        (parsed.ok <=>
            /\ ~IsZero(Literal.token.val)
            /\ AtMostSignedMax(Literal.token.val) \/ IsTwoToTheWidthMinusOne(Literal.token.val))

\* C3, amended: a Minus followed by a signed-integer literal n_Ix parses
\* iff 0 <= n <= 2^(x-1), to the number -n; every other n is an error
\* located at the range of the sign and the literal.
C3_MinusLiteralRange ==
    (ParseDone /\ IsMinusLiteral) =>
        /\ parsed.ok <=>
              AtMostSignedMax(Literal.token.val) \/ IsTwoToTheWidthMinusOne(Literal.token.val)
        /\ parsed.ok =>
              /\ parsed.val.ntype = "Number" /\ parsed.val.bucket = Literal.token.bucket
              /\ parsed.val.val = Literal.token.val
              /\ parsed.val.neg <=> ~IsZero(Literal.token.val)
        /\ ~parsed.ok =>
              /\ parsed.err.kind = "MessageWithLocation"
              /\ parsed.err.loc = from_range_pair(source[Len(source) - 1].range, Literal.range)

\* A Minus followed by the literal 0 of type i16 is accepted.
C3_Witness ==
    /\ ParseDone /\ IsMinusLiteral /\ parsed.ok
    /\ Literal.token.bucket = "I16" /\ IsZero(Literal.token.val)

\* ---------------------------------------------------------------------
\* The structure of a trimmed token stream

KindAt(items, i) == IF i \in 1..Len(items) /\ items[i].ok THEN items[i].token.kind ELSE ""

Openers == {"LeftBracket", "LeftParen", "LeftBrace"}

Closers == {"RightBracket", "RightParen", "RightBrace"}

Least(S) == CHOOSE i \in S : \A j \in S : i <= j

\* the nesting depth of position i: the openers before it less the closers before it
Depth(items, i) ==
    Cardinality({j \in 1..(i - 1) : KindAt(items, j) \in Openers})
        - Cardinality({j \in 1..(i - 1) : KindAt(items, j) \in Closers})

\* the closer that matches the opener at position i, 0 when there is none
MatchingCloser(items, i) ==
    LET later == {j \in (i + 1)..Len(items) :
                     KindAt(items, j) \in Closers /\ Depth(items, j) = Depth(items, i) + 1}
    IN IF later = {} THEN 0 ELSE Least(later)

\* position i holds a Variant token whose payload opens at position i + 1
HasPayload(items, i) ==
    KindAt(items, i) = "Variant" /\ KindAt(items, i + 1) \in {"LeftParen", "LeftBrace"}

\* the last token of the value that starts at position i
ValueEnd(items, i) ==
    IF KindAt(items, i) \in Openers THEN MatchingCloser(items, i)
    ELSE IF HasPayload(items, i) THEN MatchingCloser(items, i + 1)
    ELSE i

\* position i holds the first token of a value
IsValueStart(items, i) ==
    \/ KindAt(items, i) \in {"Number", "Variant"} \cup LiteralKinds
    \/ KindAt(items, i) \in Openers /\ ~HasPayload(items, i - 1)

\* position i holds the first token of an element: of a value or of an object's entry
IsElementStart(items, i) ==
    KindAt(items, i) \in {"Number", "Variant", "Identifier"} \cup LiteralKinds \cup Openers

\* position i holds the last token of a value
IsValueEnd(items, i) ==
    \/ KindAt(items, i) \in {"Number"} \cup LiteralKinds \cup Closers
    \/ KindAt(items, i) = "Variant" /\ ~HasPayload(items, i)

InsertAt(items, p, item) == SubSeq(items, 1, p - 1) \o <<item>> \o SubSeq(items, p, Len(items))

RemoveAt(items, p) == SubSeq(items, 1, p - 1) \o SubSeq(items, p + 1, Len(items))

ReplaceAt(items, p, token) == [items EXCEPT ![p].token = token]

\* a token written just before the token at position p
Before(items, p, token) == TokenWithRange(token, get_position_by_range_start(items[p].range))

DecodeDone == pc = "done"

\* ---------------------------------------------------------------------
\* List or Map

RootIsBracket == KindAt(trimmed, 1) = "LeftBracket"

FirstValue == IF KindAt(trimmed, 2) = "NewLine" THEN 3 ELSE 2

AfterFirstValue == ValueEnd(trimmed, FirstValue) + 1

ColonFollowsFirstValue ==
    \/ KindAt(trimmed, AfterFirstValue) = "Colon"
    \/ KindAt(trimmed, AfterFirstValue) = "NewLine"
           /\ KindAt(trimmed, AfterFirstValue + 1) = "Colon"

\* the values and the colons directly inside the root container
RootValues == {i \in 1..Len(trimmed) : Depth(trimmed, i) = 1 /\ IsValueStart(trimmed, i)}

RootColons == {i \in 1..Len(trimmed) : Depth(trimmed, i) = 1 /\ KindAt(trimmed, i) = "Colon"}

\* C4: in the parser a bracketed container with at least one element is a
\* Map iff the first parsed value is followed by a Colon, optionally past
\* one NewLine, and a List otherwise; the decision never changes: an
\* accepted List has no Colon after any element and one item per value, an
\* accepted Map has one key Colon value entry per item, and a document
\* that departs from the chosen form is not accepted.
C4_ListOrMapDecidedOnce ==
    (ParseDone /\ RootIsBracket /\ KindAt(trimmed, FirstValue) # "RightBracket") =>
        /\ parsed.ok =>
              /\ parsed.val.ntype = "Map" <=> ColonFollowsFirstValue
              /\ parsed.val.ntype = "List" <=> ~ColonFollowsFirstValue
              /\ parsed.val.ntype = "List" =>
                    /\ RootColons = {}
                    /\ Cardinality(RootValues) = Len(parsed.val.items)
              /\ parsed.val.ntype = "Map" =>
                    /\ Cardinality(RootColons) = Len(parsed.val.items)
                    /\ Cardinality(RootValues) = 2 * Len(parsed.val.items)
        /\ (~ColonFollowsFirstValue /\ RootColons # {}) => ~parsed.ok
        /\ (ColonFollowsFirstValue /\ Cardinality(RootValues) # 2 * Cardinality(RootColons)) =>
              ~parsed.ok

\* A container of two entries whose first key is followed by a NewLine and
\* then by the Colon is accepted as a Map.
C4_Witness ==
    /\ ParseDone /\ RootIsBracket /\ parsed.ok
    /\ KindAt(trimmed, AfterFirstValue) = "NewLine"
    /\ parsed.val.ntype = "Map" /\ Len(parsed.val.items) = 2

\* ---------------------------------------------------------------------
\* The end of the document

ParsedRoot == Parser_parse_node(Parser_new(trimmed))

DecodedRoot == deserialize(Deserializer_from_token_peekable_iter(trimmed), schema)

MoreThanOneNode(outcome, rest) ==
    /\ ~outcome.ok
    /\ outcome.err = MessageWithLocation("Document has more than one node.",
                                         get_position_by_range_start(Head(rest).range))

\* C5: once the root value has been parsed (parse_from) or decoded
\* (from_str), a token that remains in the trimmed stream makes the result
\* the error "Document has more than one node." located at the zero-length
\* start of the first remaining token; the value is returned only when the
\* stream is exhausted.
C5_OneNodePerDocument ==
    /\ ParseDone =>
          /\ (ParsedRoot.ok /\ ParsedRoot.st.upstream # <<>>) =>
                MoreThanOneNode(parsed, ParsedRoot.st.upstream)
          /\ parsed.ok =>
                ParsedRoot.ok /\ ParsedRoot.st.upstream = <<>> /\ parsed.val = ParsedRoot.val
    /\ DecodeDone =>
          /\ (DecodedRoot.ok /\ DecodedRoot.st.upstream # <<>>) =>
                MoreThanOneNode(decoded, DecodedRoot.st.upstream)
          /\ decoded.ok =>
                DecodedRoot.ok /\ DecodedRoot.st.upstream = <<>> /\ decoded.val = DecodedRoot.val

\* A document whose root value is followed by a number is rejected by the
\* parser and by the decoder, at the start of that number.
C5_Witness ==
    /\ DecodeDone
    /\ ParsedRoot.ok /\ ParsedRoot.st.upstream # <<>> /\ ~parsed.ok
    /\ DecodedRoot.ok /\ DecodedRoot.st.upstream # <<>> /\ ~decoded.ok
    /\ parsed.err.loc.index > 0 /\ decoded.err.loc.index > 0

\* ---------------------------------------------------------------------
\* Separators

\* the closers that directly follow the last element of their container
ClosersAfterElement ==
    {p \in 1..Len(trimmed) : KindAt(trimmed, p) \in Closers /\ IsValueEnd(trimmed, p - 1)}

\* the NewLines between the last element of a container and its closer
NewLinesBeforeCloser ==
    {p \in 1..Len(trimmed) :
        /\ KindAt(trimmed, p) = "NewLine"
        /\ KindAt(trimmed, p + 1) \in Closers /\ IsValueEnd(trimmed, p - 1)}

\* the documents that differ from the trimmed one by one Comma written
\* between the last element of a container and its closer
WithTrailingComma ==
    {InsertAt(trimmed, p, Before(trimmed, p, Token("Comma"))) : p \in ClosersAfterElement}
    \cup {ReplaceAt(trimmed, p, Token("Comma")) : p \in NewLinesBeforeCloser}

SameOutcome(outcome, r) == r.ok /\ r.val = outcome.val

\* C6: in the parser, a Comma inserted between the last element and the
\* closer of a list, map, tuple, object, tuple-style variant payload or
\* struct-style variant body of an accepted document yields an accepted
\* document with the same Node.
C6_ParserTrailingComma ==
    (ParseDone /\ parsed.ok) =>
        \A document \in WithTrailingComma : SameOutcome(parsed, parse_from(document))

\* The accepted variant whose payload is the single object {a: 1}: a
\* trailing Comma can be written in the object and in the payload.
C6_Witness ==
    /\ ParseDone /\ parsed.ok
    /\ parsed.val.ntype = "Variant" /\ parsed.val.form = "Value"
    /\ parsed.val.items[1].ntype = "Object"
    /\ Cardinality(ClosersAfterElement) = 2

\* C7: in the decoder, a single trailing Comma before the closer is
\* accepted for seq, map, tuple, struct, tuple-style and struct-style
\* variant payloads, the newtype variant payload T::M(v,) and the Option
\* payload Option::Some(v,), and the decoded value equals the one decoded
\* without the trailing comma.
C7_DecoderTrailingComma ==
    (DecodeDone /\ decoded.ok) =>
        \A document \in WithTrailingComma :
            SameOutcome(decoded, from_char_stream(document, schema))

\* the Commas and NewLines that separate two elements of a container
Separators ==
    {p \in 1..Len(trimmed) :
        /\ KindAt(trimmed, p) \in {"Comma", "NewLine"}
        /\ IsValueEnd(trimmed, p - 1) /\ IsElementStart(trimmed, p + 1)}

OtherSeparator(token) == IF token.kind = "Comma" THEN Token("NewLine") ELSE Token("Comma")

WithOtherSeparator(p) == ReplaceAt(trimmed, p, OtherSeparator(trimmed[p].token))

\* C8: in the parser and in the decoder's seq, tuple, map and struct
\* accessors, replacing an element-separating Comma by a NewLine, or a
\* NewLine separator by a Comma, in an accepted normalized token stream
\* yields an accepted stream with the same result.
C8_SeparatorsInterchangeable ==
    /\ (ParseDone /\ parsed.ok) =>
          \A p \in Separators : SameOutcome(parsed, parse_from(WithOtherSeparator(p)))
    /\ (DecodeDone /\ decoded.ok) =>
          \A p \in Separators :
              SameOutcome(decoded, from_char_stream(WithOtherSeparator(p), schema))

\* A document accepted by the parser and by the decoder separates elements
\* by a Comma in one container and by a NewLine in another.
C8_Witness ==
    /\ DecodeDone /\ parsed.ok /\ decoded.ok
    /\ \E p, q \in Separators :
          KindAt(trimmed, p) = "Comma" /\ KindAt(trimmed, q) = "NewLine"

\* without the separator at p the tokens around it are one element, a
\* Variant and its payload, and no longer two
JoinsPayload(p) ==
    KindAt(trimmed, p - 1) = "Variant" /\ KindAt(trimmed, p + 1) \in {"LeftParen", "LeftBrace"}

MissingSeparator(r, p) ==
    /\ ~r.ok
    /\ r.err.kind = "MessageWithLocation"
    /\ r.err.loc = get_position_by_range_start(trimmed[p + 1].range)

\* C9: when two consecutive elements of a list, map, tuple, object or
\* variant payload are separated by neither a Comma nor a NewLine, the
\* parser and the decoder return a positioned error at the zero-length
\* start of the first token of the second element, and no value.  (A
\* Variant directly followed by `(` or `{` is one element, the variant
\* with its payload.)
C9_MissingSeparator ==
    /\ (ParseDone /\ parsed.ok) =>
          \A p \in Separators :
              ~JoinsPayload(p) => MissingSeparator(parse_from(RemoveAt(trimmed, p)), p)
    /\ (DecodeDone /\ decoded.ok) =>
          \A p \in Separators :
              ~JoinsPayload(p) =>
                  MissingSeparator(from_char_stream(RemoveAt(trimmed, p), schema), p)

\* A document accepted by the parser and by the decoder with two
\* separators, in a container and in an element of it.
C9_Witness ==
    /\ DecodeDone /\ parsed.ok /\ decoded.ok
    /\ \E p, q \in Separators :
          /\ p < q /\ Depth(trimmed, p) # Depth(trimmed, q)
          /\ ~JoinsPayload(p) /\ ~JoinsPayload(q)

\* ---------------------------------------------------------------------
\* Tuples

\* every Tuple node of a node, at any depth, has an item
RECURSIVE TuplesNotEmpty(_)
TuplesNotEmpty(node) ==
    /\ node.ntype = "Tuple" => Len(node.items) >= 1
    /\ \A i \in 1..Len(node.items) :
          IF node.ntype = "Map"
          THEN TuplesNotEmpty(node.items[i].name) /\ TuplesNotEmpty(node.items[i].value)
          ELSE IF node.ntype = "Object" \/ (node.ntype = "Variant" /\ node.form = "Object")
          THEN TuplesNotEmpty(node.items[i].value)
          ELSE TuplesNotEmpty(node.items[i])

\* the openers of the empty tuples: a `(` that is not a variant's payload
\* and that is followed, after an optional NewLine, directly by `)`
EmptyTuples ==
    {p \in 1..Len(trimmed) :
        /\ KindAt(trimmed, p) = "LeftParen" /\ ~HasPayload(trimmed, p - 1)
        /\ \/ KindAt(trimmed, p + 1) = "RightParen"
           \/ KindAt(trimmed, p + 1) = "NewLine" /\ KindAt(trimmed, p + 2) = "RightParen"}

\* the document with a number written in each of its empty tuples
RECURSIVE Filled(_)
Filled(p) ==
    IF p > Len(trimmed) THEN <<>>
    ELSE IF p \in EmptyTuples
    THEN <<trimmed[p], Before(trimmed, p + 1, I32(1))>> \o Filled(p + 1)
    ELSE <<trimmed[p]>> \o Filled(p + 1)

FirstEmptyTupleCloser == MatchingCloser(trimmed, Least(EmptyTuples))

\* C10: every Tuple node that parse returns, at any nesting depth, has at
\* least one item; a `(` followed, after an optional NewLine, directly by
\* `)` yields the error "Tuple can not be empty." located at the
\* zero-length start of the `)`.
C10_TupleNotEmpty ==
    ParseDone =>
        /\ parsed.ok => TuplesNotEmpty(parsed.val)
        /\ (EmptyTuples # {} /\ parse_from(Filled(1)).ok) =>
              /\ ~parsed.ok
              /\ parsed.err =
                     MessageWithLocation("Tuple can not be empty.",
                         get_position_by_range_start(trimmed[FirstEmptyTupleCloser].range))

\* An empty tuple, written with a NewLine between its parentheses, inside
\* a container is rejected at its `)`.
C10_Witness ==
    /\ ParseDone /\ ~parsed.ok /\ parsed.err.msg = "Tuple can not be empty."
    /\ EmptyTuples # {} /\ Least(EmptyTuples) > 1
    /\ parse_from(Filled(1)).ok

\* ---------------------------------------------------------------------
\* Variants with a parenthesised payload

\* the nodes directly inside a node
Children(node) ==
    IF node.ntype = "Map"
    THEN [i \in 1..(2 * Len(node.items)) |->
             IF i % 2 = 1 THEN node.items[(i + 1) \div 2].name ELSE node.items[i \div 2].value]
    ELSE IF node.ntype = "Object" \/ (node.ntype = "Variant" /\ node.form = "Object")
    THEN [i \in 1..Len(node.items) |-> node.items[i].value]
    ELSE node.items

\* every Variant node of a node, at any depth, has one item in the Value
\* form and two or more in the Tuple form
RECURSIVE PayloadFormsAgree(_)
PayloadFormsAgree(node) ==
    /\ (node.ntype = "Variant" /\ node.form = "Value") => Len(node.items) = 1
    /\ (node.ntype = "Variant" /\ node.form = "Tuple") => Len(node.items) >= 2
    /\ \A i \in 1..Len(Children(node)) : PayloadFormsAgree(Children(node)[i])

\* the document is a Variant token followed by `(`
RootIsPayload == KindAt(trimmed, 1) = "Variant" /\ KindAt(trimmed, 2) = "LeftParen"

C11_EmptyWitness ==
    /\ ParseDone /\ RootIsPayload /\ ~parsed.ok
    /\ KindAt(trimmed, 3) = "NewLine" /\ KindAt(trimmed, 4) = "RightParen"

\* ---------------------------------------------------------------------
\* Options: documents of one Variant token of the type Option and what
\* follows it, decoded as Option<i32>

MaxFollowers == 2

OptionMembers == {"None", "Some", "Other"}

FollowerAlphabet ==
    {Token("LeftParen"), Token("RightParen"), Token("Comma"), Token("NewLine"), I32(1)}

OptionDocuments ==
    {Document(<<Variant("Option", member)>> \o followers, TyOf("option", <<Int32>>)) :
        member \in OptionMembers, followers \in SeqsUpTo(FollowerAlphabet, MaxFollowers)}

InitOption == InitWith(OptionDocuments)

SpecOption == InitOption /\ [][Next]_vars

\* the decoder is asked for an option and the first token is a Variant of the type Option
IsOptionVariant ==
    /\ schema.k = "option"
    /\ KindAt(trimmed, 1) = "Variant" /\ trimmed[1].token.type_name = "Option"

\* member None not followed by `(`, or member Some followed by `(`
IsOptionForm ==
    \/ trimmed[1].token.name = "None" /\ KindAt(trimmed, 2) # "LeftParen"
    \/ trimmed[1].token.name = "Some" /\ KindAt(trimmed, 2) = "LeftParen"

InvalidMember(outcome) ==
    /\ ~outcome.ok
    /\ outcome.err.kind = "MessageWithLocation"
    /\ outcome.err.msg = "Invalid member of variant \"Option\"."

\* C12: when the decoder is asked for an option and the next token is a
\* Variant of the type Option, every case other than member None not
\* followed by `(` and member Some followed by `(` returns the error
\* "Invalid member of variant "Option"", whatever follows the Variant
\* token, also when the Variant token is the last token of the input.
C12_InvalidOptionMember ==
    (DecodeDone /\ IsOptionVariant /\ ~IsOptionForm) => InvalidMember(decoded)

\* C12 where a token follows the Variant token: the error is located at
\* the range of that token.
C12_InvalidOptionMemberBeforeToken ==
    (DecodeDone /\ IsOptionVariant /\ ~IsOptionForm /\ Len(trimmed) > 1) =>
        InvalidMember(decoded) /\ decoded.err.loc = trimmed[2].range

\* Option::Some as the whole document: the decoder unwraps the range of a
\* token that does not exist.
C12_LastTokenPanics ==
    /\ DecodeDone /\ IsOptionVariant /\ ~IsOptionForm
    /\ Len(trimmed) = 1 /\ trimmed[1].token.name = "Some"
    /\ decoded.err.kind = "Panic"

\* ---------------------------------------------------------------------
\* Lexer errors: documents in which the lexer returns Err for one token,
\* and then goes on with the tokens after it or ends the stream

MaxErrorElems == 1

MaxSigns == 3

SignAlphabet == {Token("Plus"), Token("Minus"), Token("NewLine"), Token("Comma"), I8(1)}

ErrorDocuments ==
    UNION {{ListDocument(items, layout) : items \in [1..MaxErrorElems -> Atoms \cup Entries]}
           \cup UNION {{TupleDocument(items, layout), ObjectDocument(items, layout),
                        TupleVariantDocument(items, layout),
                        StructVariantDocument(items, layout)} :
                           items \in [1..MaxErrorElems -> Atoms]}
           \cup UNION {{NewtypeVariantDocument(items, layout), OptionDocument(items, layout)} :
                           items \in [1..1 -> Atoms]} :
        layout \in {"comma", "newline"}}
    \cup {Document(s, Ty("i8")) : s \in SeqsUpTo(SignAlphabet, MaxSigns)}

LexError(range) == ErrItem(MessageWithLocation("Unexpected char.", range))

\* the lexer's items when the token at position k is not lexed: an Err in its place
LexerWithError(items, k, goes_on) ==
    SubSeq(items, 1, k - 1) \o <<LexError(items[k].range)>>
        \o (IF goes_on THEN SubSeq(items, k + 1, Len(items)) ELSE <<>>)

InitErrors ==
    /\ \E d \in ErrorDocuments : \E k \in 1..Len(d.tokens) : \E goes_on \in BOOLEAN :
          source = LexerWithError(Lexer(d.tokens, 0), k, goes_on) /\ schema = d.ty
    /\ lexer = source
    /\ cleared = <<>>
    /\ normalized = <<>>
    /\ trimmed = <<>>
    /\ pc = "clean"
    /\ parsed = NoOutcome
    /\ decoded = NoOutcome

SpecErrors == InitErrors /\ [][Next]_vars

Errors(items) == {i \in 1..Len(items) : ~items[i].ok}

\* the items a call has taken from its upstream
Consumed(upstream, rest) == SubSeq(upstream, 1, Len(upstream) - Len(rest))

\* a call of a stage's next() that takes an Err from its upstream returns that Err
ForwardedByNext(upstream, r) ==
    \A i \in Errors(Consumed(upstream, r.rest)) : r.some /\ r.item = upstream[i]

\* a call of the normalizer that peeks an Err while it decides on a sign returns that Err
ForwardedBySign(upstream, r) ==
    (KindAt(upstream, 1) \in {"Plus", "Minus"} /\ 2 \in Errors(upstream)) =>
        r.some /\ r.item = upstream[2]

\* the result of the parser or of the decoder on a stream with an Err: no
\* value; the Err when the call has taken it; and any other error only when
\* the same error is returned for the stream that ends before the Err
ForwardedByResult(upstream, r, on_prefix) ==
    Errors(upstream) # {} =>
        LET first == Least(Errors(upstream))
        IN /\ ~r.ok
           /\ first \in Errors(Consumed(upstream, r.st.upstream)) => r.err = upstream[first].err
           /\ r.err # upstream[first].err => Outcome(r) = Outcome(on_prefix)

UpToFirstError(items) == SubSeq(items, 1, Least(Errors(items)) - 1)

StreamStagesForward ==
    /\ pc = "clean" => ForwardedByNext(lexer, clean(lexer))
    /\ pc = "normalize" =>
          /\ ForwardedByNext(cleared, normalize(cleared))
          /\ ForwardedBySign(cleared, normalize(cleared))
    /\ pc = "trim" => ForwardedByNext(normalized, trim(normalized))
    /\ (pc = "parse" /\ Errors(source) # {}) =>
          \E i \in Errors(trimmed) : trimmed[i] = source[Least(Errors(source))]

ParserForwards ==
    ParseDone =>
        ForwardedByResult(trimmed, parse_from(trimmed),
                          IF Errors(trimmed) = {} THEN parse_from(trimmed)
                          ELSE parse_from(UpToFirstError(trimmed)))

DecoderForwards ==
    DecodeDone =>
        ForwardedByResult(trimmed, from_char_stream(trimmed, schema),
                          IF Errors(trimmed) = {} THEN from_char_stream(trimmed, schema)
                          ELSE from_char_stream(UpToFirstError(trimmed), schema))

\* C13: every stage forwards an upstream error unchanged: the comment
\* stripper, the normalizer, the trimmer, the parser and the decoder return
\* Err(e), with the same kind, message and range, when the item they take
\* or peek while deciding is Err(e); none turns it into a success or into
\* a different error.
C13_ErrorsForwarded == StreamStagesForward /\ ParserForwards /\ DecoderForwards

\* C13 for the comment stripper, the normalizer, the trimmer and the parser.
C13_ErrorsForwardedToParser == StreamStagesForward /\ ParserForwards

\* Option::Some( followed by a lexer error: the decoder has taken the Err
\* and returns another error.
C13_OptionPayloadError ==
    /\ DecodeDone /\ schema.k = "option"
    /\ 3 \in Errors(trimmed)
    /\ ~decoded.ok /\ decoded.err # trimmed[3].err

\* ---------------------------------------------------------------------
\* Truncated documents: the blank documents and the proper prefixes of the
\* documents the parser accepts

MaxTruncatedElems == 2

TruncatedAtoms ==
    {Item(<<I32(1)>>, Int32),
     Item(<<Variant("T", "N"), Token("LeftParen"), I32(1), Token("RightParen")>>, AtomEnum),
     Item(<<Token("LeftParen"), I32(1), Token("Comma"), I32(2), Token("RightParen")>>,
          TyOf("tuple", <<Int32, Int32>>)),
     Item(<<Token("LeftBrace"), Identifier("a"), Token("Colon"), I32(1), Token("RightBrace")>>,
          TyNamed("struct", "", <<"a">>, <<Int32>>))}

\* the items of a list: values only, or entries only
ListItems ==
    SeqsUpTo(TruncatedAtoms, MaxTruncatedElems) \cup SeqsUpTo(Entries, MaxTruncatedElems)

\* a container may be empty when it is not a tuple and no separator is written in it
MayBeEmpty(items, layout) == items # <<>> \/ layout # "trailing"

\* documents the parser accepts
CompleteDocuments(layout) ==
    {ListDocument(items, layout) : items \in {i \in ListItems : MayBeEmpty(i, layout)}}
    \cup UNION {{ObjectDocument(items, layout), StructVariantDocument(items, layout)} :
                   items \in {i \in SeqsUpTo(TruncatedAtoms, MaxTruncatedElems) :
                                 MayBeEmpty(i, layout)}}
    \cup UNION {{TupleDocument(items, layout), TupleVariantDocument(items, layout)} :
                   items \in SeqsUpTo(TruncatedAtoms, MaxTruncatedElems) \ {<<>>}}

TruncatedDocuments(layout) ==
    UNION {{Document(SubSeq(d.tokens, 1, n), d.ty) : n \in 1..(Len(d.tokens) - 1)} :
              d \in CompleteDocuments(layout)}

MaxBlanks == 3

BlankDocuments ==
    {Document(s, Int32) : s \in SeqsUpTo({Token("NewLine"), Token("Comment")}, MaxBlanks)}

InitTruncated ==
    \/ \E layout \in {"comma", "newline", "trailing"} : InitWith(TruncatedDocuments(layout))
    \/ InitWith(BlankDocuments)

SpecTruncated == InitTruncated /\ [][Next]_vars

\* the stream ends before the document is complete: it is empty or it
\* leaves a `[`, `(` or `{` open
EndsEarly == trimmed = <<>> \/ Depth(trimmed, Len(trimmed) + 1) > 0

\* C14: when parse_from fails because the token stream ends before the
\* document is complete (an empty, blank or comment-only document, an
\* unclosed `[`, `(` or `{` with or without a trailing separator, a key
\* without colon, a colon without value) the error is
\* UnexpectedEndOfDocument, without position; it is never a positioned
\* error and never a success.
C14_UnexpectedEnd ==
    (ParseDone /\ EndsEarly) =>
        /\ ~parsed.ok
        /\ parsed.err.kind = "UnexpectedEndOfDocument"
        /\ parsed.err.loc = new_range(0, 0)

\* An object that ends after the key of its second entry, the colon missing.
C14_Witness ==
    /\ ParseDone /\ EndsEarly /\ ~parsed.ok
    /\ KindAt(trimmed, 1) = "LeftBrace"
    /\ KindAt(trimmed, Len(trimmed)) = "Identifier" /\ KindAt(trimmed, Len(trimmed) - 1) = "Comma"

\* A document of one comment between two newlines.
C14_BlankWitness ==
    /\ ParseDone /\ EndsEarly /\ ~parsed.ok
    /\ Len(source) = 3 /\ IsToken(source[2], "Comment") /\ trimmed = <<>>

\* ---------------------------------------------------------------------
\* Closers in the decoder

\* the closers of the trimmed stream
CloserPositions == {p \in 1..Len(trimmed) : KindAt(trimmed, p) \in Closers}

\* the tokens that are not the closer a position asks for
NotTheCloser(kind) == {Token(k) : k \in (Closers \ {kind}) \cup {"Colon"}}

\* the document is decoded as a newtype variant
RootIsNewtype ==
    /\ schema.k = "enum" /\ KindAt(trimmed, 1) = "Variant"
    /\ Contains(schema.fields, trimmed[1].token.name)
    /\ schema.elems[IndexOf(schema.fields, trimmed[1].token.name)].k = "newtype"

\* the payload that the closer at position p closes is the payload of a
\* newtype variant: of the root, or of a member N of an element
ClosesNewtype(p) ==
    \E o \in 2..(p - 1) :
        /\ MatchingCloser(trimmed, o) = p /\ KindAt(trimmed, o) = "LeftParen"
        /\ KindAt(trimmed, o - 1) = "Variant"
        /\ (o = 2 /\ RootIsNewtype) \/ (o > 2 /\ trimmed[o - 1].token.name = "N")

EndsBeforeCloser(r) == ~r.ok /\ r.err.kind = "UnexpectedEndOfDocument"

Positioned(r) == ~r.ok /\ r.err.kind = "MessageWithLocation"

ClosedAt(p) ==
    /\ EndsBeforeCloser(from_char_stream(SubSeq(trimmed, 1, p - 1), schema))
    /\ \A token \in NotTheCloser(KindAt(trimmed, p)) :
          Positioned(from_char_stream(ReplaceAt(trimmed, p, token), schema))

\* C15: in the decoder every opened payload must be closed by its matching
\* closer: decoding a seq, map, tuple, struct, Option::Some payload or a
\* newtype, tuple-style or struct-style variant payload succeeds only if
\* the token after the last element and the optional trailing separator is
\* the matching `]`, `)` or `}`; when the input ends there the result is
\* UnexpectedEndOfDocument, when another token stands there it is a
\* positioned error.
C15_PayloadsClosed ==
    (DecodeDone /\ decoded.ok) => \A p \in CloserPositions : ClosedAt(p)

\* C15 for every payload but the payload of a newtype variant.
C15_PayloadsClosedButNewtype ==
    (DecodeDone /\ decoded.ok) => \A p \in CloserPositions : ~ClosesNewtype(p) => ClosedAt(p)

\* The document T::N(1 that ends before the `)`, and the document T::N(1]
\* are decoded to a value.
C15_NewtypeNotClosed ==
    /\ DecodeDone /\ decoded.ok /\ Len(trimmed) = 4 /\ ClosesNewtype(4)
    /\ from_char_stream(SubSeq(trimmed, 1, 3), schema).ok
    /\ from_char_stream(ReplaceAt(trimmed, 4, Token("RightBracket")), schema).ok

\* ---------------------------------------------------------------------
\* Number tokens that leave the normalizer

\* the tokens the normalizer has emitted
Emitted == normalized \o trimmed

SignedNumbers(items) ==
    {i \in 1..Len(items) : IsToken(items[i], "Number") /\ items[i].token.bucket \in SignedBuckets}

\* C16 as stated: no Number token of a signed bucket that leaves the
\* normalizer stores an unsigned value greater than Ix::MAX.
C16_StoredValueAtMostMax ==
    \A i \in SignedNumbers(Emitted) : AtMostSignedMax(Emitted[i].token.val)

\* C16, amended: a Number token of a signed bucket that leaves the
\* normalizer stores an unsigned value greater than Ix::MAX only when it
\* was written with a minus sign, as -n with 1 <= n <= 2^(w-1), and then
\* it stores 2^w - n; a token written without a sign or with a plus sign
\* stores a value of at most Ix::MAX.
C16_StoredValueOfSign ==
    \A i \in SignedNumbers(Emitted) :
        IF IsMinusLiteral
        THEN /\ Emitted[i].token.val = WrappingNeg(Literal.token.val)
             /\ AtMostSignedMax(Emitted[i].token.val) <=> IsZero(Literal.token.val)
        ELSE /\ Emitted[i].token.val = Literal.token.val
             /\ AtMostSignedMax(Emitted[i].token.val)

\* The normalizer has emitted the token of -1_i16: it stores 65535.
C16_Witness ==
    /\ pc = "trim_new" /\ IsMinusLiteral
    /\ Literal.token = NumberToken("I16", <<0, 1>>)
    /\ SignedNumbers(normalized) # {}
    /\ \A i \in SignedNumbers(normalized) : normalized[i].token.val = <<255, 255>>

\* ---------------------------------------------------------------------
\* Signs: documents of a Plus or a Minus and what follows it

FloatValues == {<<0, class>> : class \in 0..3}

SignFollowers ==
    {<<NumberToken(bucket, val)>> :
        bucket \in SignedBuckets \cup UnsignedBuckets,
        val \in UNION {NumValues(ByteLen(b)) : b \in SignedBuckets}}
    \cup {<<NumberToken(bucket, val)>> : bucket \in FloatBuckets, val \in FloatValues}
    \cup {<<Token(kind)>> :
             kind \in {"NewLine", "Comma", "Plus", "Minus", "LeftParen", "RightBracket", "Boolean"}}
    \cup {<<Variant("T", "A")>>, <<>>}

SignDocuments ==
    {Document(before \o <<Token(sign)>> \o between \o follower \o after, Ty("i8")) :
        before \in {<<>>, <<Token("LeftBracket")>>},
        sign \in {"Plus", "Minus"},
        between \in {<<>>, <<Token("Comment")>>},
        follower \in SignFollowers,
        after \in {<<>>, <<I8(1)>>}}

InitSigns ==
    InitWith({d \in SignDocuments :
                 \A i \in 1..Len(d.tokens) :
                     (d.tokens[i].kind = "Number" /\ d.tokens[i].bucket \notin FloatBuckets) =>
                         Len(d.tokens[i].val) = ByteLen(d.tokens[i].bucket)})

SpecSigns == InitSigns /\ [][Next]_vars

\* the normalizer's upstream starts with the sign and the token after it is a Number
SignBeforeNumber(sign) == IsKindAt(cleared, 1, sign) /\ IsKindAt(cleared, 2, "Number")

IsNaN(token) == token.bucket \in FloatBuckets /\ is_nan(token.val)

\* the range from the sign to the end of the token after it
JoinedRange == from_range_pair(cleared[1].range, cleared[2].range)

\* what the call of the normalizer has appended to its output
Returned(item) == normalized' = Append(normalized, item)

ReturnedErrorAt(range) ==
    \E e \in {normalized'[Len(normalized')]} :
        /\ Len(normalized') = Len(normalized) + 1
        /\ ~e.ok /\ e.err.kind = "MessageWithLocation" /\ e.err.loc = range

NoSignEmitted == \A i \in 1..Len(Emitted) : KindAt(Emitted, i) \notin {"Plus", "Minus"}

\* C17: for a Plus token immediately followed by a Number token that is
\* not NaN: when the number is a signed integer with stored value greater
\* than Ix::MAX the normalizer returns a positioned error whose range
\* spans from the Plus to the end of the number; otherwise it consumes
\* both tokens and emits one token, the number with bucket and value
\* unchanged, whose range spans from the Plus to the end of the number;
\* the Plus token itself is never emitted.
C17_PlusNumber ==
    /\ [][(NormalizeNext /\ SignBeforeNumber("Plus") /\ ~IsNaN(cleared[2].token)) =>
              IF cleared[2].token.bucket \in SignedBuckets
                   /\ ~AtMostSignedMax(cleared[2].token.val)
              THEN ReturnedErrorAt(JoinedRange)
              ELSE /\ Returned(TokenWithRange(cleared[2].token, JoinedRange))
                   /\ cleared' = Tail(Tail(cleared))]_vars
    /\ [](\A i \in 1..Len(Emitted) : KindAt(Emitted, i) # "Plus")

\* The normalizer has emitted the token of +127_i8 written after a `[`:
\* one token, over the 4 bytes of the sign and the number.
C17_Witness ==
    /\ pc = "normalize" /\ Len(normalized) = 2
    /\ IsKindAt(source, 2, "Plus") /\ IsKindAt(source, 3, "Number")
    /\ source[3].token = I8(127)
    /\ normalized[2] = TokenWithRange(I8(127), new_range(1, 4))

\* a + b + carry over bit patterns of the same width, the carry out dropped
RECURSIVE AddBytes(_, _, _)
AddBytes(a, b, carry) ==
    IF a = <<>> THEN <<>>
    ELSE LET t == a[Len(a)] + b[Len(b)] + carry
         IN Append(AddBytes(SubSeq(a, 1, Len(a) - 1), SubSeq(b, 1, Len(b) - 1), t \div 256),
                   t % 256)

\* stored = (2^w - n) mod 2^w
IsTwosComplementOf(stored, n) == Len(stored) = Len(n) /\ IsZero(AddBytes(stored, n, 0))

\* the signed value -n as a Number node
MinusNumber(bucket, n) ==
    [AsonNode("Number") EXCEPT !.bucket = bucket, !.neg = ~IsZero(n), !.val = n]

\* C18: for a Minus token immediately followed by a signed-integer token
\* Ix of width w with stored magnitude n: when n <= 2^(w-1) the normalizer
\* consumes both tokens and emits one Number(Ix) token that stores
\* (2^w - n) mod 2^w, with the joined range, and the parser converts that
\* token to the signed value -n; when n > 2^(w-1) it returns a positioned
\* error over the joined range.
C18_MinusSigned ==
    [][(NormalizeNext /\ SignBeforeNumber("Minus")
            /\ cleared[2].token.bucket \in SignedBuckets) =>
          IF AtMostSignedMax(cleared[2].token.val)
               \/ IsTwoToTheWidthMinusOne(cleared[2].token.val)
          THEN /\ Len(normalized') = Len(normalized) + 1
               /\ cleared' = Tail(Tail(cleared))
               /\ \E emitted \in {normalized'[Len(normalized')]} :
                     /\ IsToken(emitted, "Number")
                     /\ emitted.token.bucket = cleared[2].token.bucket
                     /\ IsTwosComplementOf(emitted.token.val, cleared[2].token.val)
                     /\ emitted.range = JoinedRange
                     /\ convert_number_token(emitted.token)
                            = MinusNumber(cleared[2].token.bucket, cleared[2].token.val)
          ELSE ReturnedErrorAt(JoinedRange)]_vars

\* The normalizer has emitted the token of -32768_i16: it stores 32768.
C18_Witness ==
    /\ pc = "trim_new" /\ Len(source) = 2
    /\ IsKindAt(source, 1, "Minus") /\ IsKindAt(source, 2, "Number")
    /\ source[2].token = NumberToken("I16", <<128, 0>>)
    /\ normalized = <<TokenWithRange(NumberToken("I16", <<128, 0>>), new_range(0, 4))>>

\* the document holds a Minus directly before a Number of an unsigned
\* bucket, as the first tokens after an optional `[`
MinusBeforeUnsigned ==
    \E i \in 1..2 :
        /\ IsKindAt(source, i, "Minus") /\ IsKindAt(source, i + 1, "Number")
        /\ source[i + 1].token.bucket \in UnsignedBuckets
        /\ i = 2 => IsKindAt(source, 1, "LeftBracket")

\* C19: a Minus token immediately followed by a Number token of an
\* unsigned bucket always yields a positioned error whose range spans both
\* tokens, for every stored value, 0 included: the call returns the error
\* and no token, and parse_from returns no value.
C19_MinusUnsigned ==
    /\ [][(NormalizeNext /\ SignBeforeNumber("Minus")
               /\ cleared[2].token.bucket \in UnsignedBuckets) =>
             ReturnedErrorAt(JoinedRange)]_vars
    /\ []((ParseDone /\ MinusBeforeUnsigned) =>
             /\ ~parsed.ok /\ parsed.err.kind = "MessageWithLocation"
             /\ parsed.err.msg = "The minus sign cannot be applied to unsigned numbers.")

\* -0_u64 after a `[` has been rejected by the normalizer and by parse_from,
\* over the 4 bytes of the sign and the number.
C19_Witness ==
    /\ ParseDone /\ MinusBeforeUnsigned /\ ~parsed.ok
    /\ IsKindAt(source, 3, "Number")
    /\ source[3].token = NumberToken("U64", Bytes(8, 0, 0))
    /\ parsed.err.loc = new_range(1, 4)

\* the normalizer's upstream starts with a Plus or a Minus
SignFirst == IsKindAt(cleared, 1, "Plus") \/ IsKindAt(cleared, 1, "Minus")

\* the token after the sign is one a sign applies to: a Number that is not NaN
NumberFollows == IsKindAt(cleared, 2, "Number") /\ ~IsNaN(cleared[2].token)

ReturnedEndOfDocument ==
    \E e \in {normalized'[Len(normalized')]} :
        /\ Len(normalized') = Len(normalized) + 1
        /\ ~e.ok /\ e.err.kind = "UnexpectedEndOfDocument" /\ e.err.loc = new_range(0, 0)

\* the call has returned a Number token whose range starts where the sign starts
ReturnedSignedNumber ==
    \E e \in {normalized'[Len(normalized')]} :
        /\ Len(normalized') = Len(normalized) + 1
        /\ IsToken(e, "Number") /\ e.range = JoinedRange

\* C20: a Plus or Minus token is applied only to an immediately following
\* Number token that is not NaN: followed by a NaN of F32 or F64 or by a
\* token that is no number (a NewLine, a Comma, another sign) the
\* normalizer returns a positioned error whose range spans from the sign
\* to the end of the following token; at the end of the stream it returns
\* UnexpectedEndOfDocument without position; a sign token is never emitted
\* and never dropped silently: the call returns an error or the number
\* that carries the sign's range.
C20_SignNeedsNumber ==
    /\ [][(NormalizeNext /\ SignFirst) =>
             IF Len(cleared) = 1 THEN ReturnedEndOfDocument
             ELSE IF NumberFollows
             THEN ReturnedSignedNumber \/ ReturnedErrorAt(JoinedRange)
             ELSE ReturnedErrorAt(JoinedRange)]_vars
    /\ []NoSignEmitted

\* A Minus followed by the NaN of F64 has been rejected over the 4 bytes of
\* the two tokens.
C20_Witness ==
    /\ pc = "trim_new" /\ Len(source) = 2
    /\ IsKindAt(source, 1, "Minus") /\ source[2].token = NumberToken("F64", <<0, 3>>)
    /\ Len(normalized) >= 1 /\ ~normalized[1].ok
    /\ normalized[1].err.loc = new_range(0, 4)

\* A Plus followed by a Comment at the end of the document has been
\* answered with UnexpectedEndOfDocument.
C20_EndWitness ==
    /\ pc = "trim_new" /\ Len(source) = 2
    /\ IsKindAt(source, 1, "Plus") /\ IsKindAt(source, 2, "Comment")
    /\ normalized = <<ErrItem(UnexpectedEndOfDocument("Missing the number that follow the plus sign."))>>

----------------------------------------------------------------------------
(* C21: what the trimmer removes *)

\* every item ClearTokenIter yields for an upstream, in order
RECURSIVE Cleared(_)
Cleared(upstream) ==
    LET r == clean(upstream)
    IN IF r.some THEN <<r.item>> \o Cleared(r.rest) ELSE <<>>

\* every item NormalizedTokenIter yields for an upstream, in order
RECURSIVE Normalized(_)
Normalized(upstream) ==
    LET r == normalize(upstream)
    IN IF r.some THEN <<r.item>> \o Normalized(r.rest) ELSE <<>>

\* the items without one leading NewLine, if there is one
WithoutLeadingNewLine(items) == IF IsKindAt(items, 1, "NewLine") THEN Tail(items) ELSE items

\* the items without one trailing NewLine, if there is one
WithoutTrailingNewLine(items) ==
    IF IsKindAt(items, Len(items), "NewLine") THEN SubSeq(items, 1, Len(items) - 1) ELSE items

TrimDone == pc \in {"parse", "decode", "done"}

\* C21: on an input without lexer errors the trimmer delivers the normalized
\* stream without its one leading and its one trailing NewLine, every other
\* item unchanged and in order, and what it delivers neither begins nor ends
\* with a NewLine.
C21_TrimmedEnds ==
    TrimDone =>
        /\ trimmed = WithoutTrailingNewLine(WithoutLeadingNewLine(Normalized(Cleared(source))))
        /\ ~IsKindAt(trimmed, 1, "NewLine")
        /\ ~IsKindAt(trimmed, Len(trimmed), "NewLine")

\* a document between a leading and a trailing NewLine has been trimmed
C21_Witness ==
    /\ TrimDone
    /\ Len(source) >= 3
    /\ IsKindAt(Normalized(Cleared(source)), 1, "NewLine")
    /\ IsKindAt(Normalized(Cleared(source)), Len(Normalized(Cleared(source))), "NewLine")
    /\ Len(trimmed) = Len(Normalized(Cleared(source))) - 2
    /\ trimmed # <<>>

----------------------------------------------------------------------------
(* C22: the documents the parser accepts and the decoder *)

\* the requests of the type are the ones that match the shape of the node:
\* seq for List, map for Map, tuple of N for Tuple, struct for Object, enum
\* for Variant with the member's style, option for Option::None and
\* Option::Some(v)
RECURSIVE Matches(_, _)
RECURSIVE AllMatch(_, _)
RECURSIVE FieldsMatch(_, _)
Matches(node, ty) ==
    CASE ty.k = "i32" -> node.ntype = "Number" /\ node.bucket = "I32"
      [] ty.k = "option" ->
           /\ node.ntype = "Variant" /\ node.type_name = "Option"
           /\ \/ node.name = "None" /\ node.form = "None"
              \/ /\ node.name = "Some" /\ node.form = "Value"
                 /\ Matches(node.items[1], ty.elems[1])
      [] ty.k = "seq" ->
           /\ node.ntype \in {"List", "Map"}
           /\ node.ntype = "Map" => node.items = <<>>
           /\ node.ntype = "List" =>
                 \A i \in 1..Len(node.items) : Matches(node.items[i], ty.elems[1])
      [] ty.k = "map" ->
           /\ node.ntype = "Map"
           /\ \A i \in 1..Len(node.items) :
                 /\ Matches(node.items[i].name, ty.elems[1])
                 /\ Matches(node.items[i].value, ty.elems[2])
      [] ty.k = "tuple" -> node.ntype = "Tuple" /\ AllMatch(node.items, ty.elems)
      [] ty.k = "struct" -> node.ntype = "Object" /\ FieldsMatch(node.items, ty)
      [] ty.k = "enum" ->
           /\ node.ntype = "Variant" /\ node.type_name = ty.name
           /\ Contains(ty.fields, node.name)
           /\ LET member == ty.elems[IndexOf(ty.fields, node.name)]
              IN CASE member.k = "unit" -> node.form = "None"
                   [] member.k = "newtype" ->
                        node.form = "Value" /\ Matches(node.items[1], member.elems[1])
                   [] member.k = "tuple" ->
                        node.form = "Tuple" /\ AllMatch(node.items, member.elems)
                   [] member.k = "struct" ->
                        node.form = "Object" /\ FieldsMatch(node.items, member)
                   [] OTHER -> FALSE
      [] OTHER -> FALSE

AllMatch(nodes, types) ==
    /\ Len(nodes) = Len(types)
    /\ \A i \in 1..Len(nodes) : Matches(nodes[i], types[i])

FieldsMatch(kvps, ty) ==
    /\ Len(kvps) = Len(ty.fields)
    /\ \A i \in 1..Len(kvps) :
          kvps[i].key = ty.fields[i] /\ Matches(kvps[i].value, ty.elems[i])

\* the parser accepts the document and the visitor's requests match its tree
ParsedAsRequested == ParseDone /\ parsed.ok /\ Matches(parsed.val, schema)

\* C22: every normalized token stream the parser accepts is decoded, and
\* consumed whole, by the decoder under a visitor whose requests match the
\* shape of the parsed tree; a NewLine directly after the `(` or before the
\* `)` of an Option::Some or variant payload is accepted by both.
C22_SameDocuments == (DecodeDone /\ ParsedAsRequested) => decoded.ok

\* position o holds the `(` of an Option payload
OpensOption(o) ==
    /\ KindAt(trimmed, o) = "LeftParen" /\ KindAt(trimmed, o - 1) = "Variant"
    /\ trimmed[o - 1].token.type_name = "Option"

\* position p holds the `)` of an Option payload
ClosesOption(p) == \E o \in 2..(p - 1) : MatchingCloser(trimmed, o) = p /\ OpensOption(o)

\* the NewLines directly after the `(` or directly before the `)` of an
\* Option payload
OptionNewLines ==
    {p \in 1..Len(trimmed) :
        /\ KindAt(trimmed, p) = "NewLine"
        /\ OpensOption(p - 1) \/ ClosesOption(p + 1)}

\* the Commas directly before the `)` of an Option payload or of a newtype
\* variant payload
PayloadTrailingCommas ==
    {p \in 1..Len(trimmed) :
        /\ KindAt(trimmed, p) = "Comma"
        /\ ClosesOption(p + 1) \/ ClosesNewtype(p + 1)}

\* What holds instead of C22: the decoder accepts what the parser accepts
\* unless a NewLine stands directly inside the parentheses of an Option
\* payload or a Comma stands before the `)` of an Option payload or of a
\* newtype variant payload.
C22_SameDocumentsButPayloads ==
    (DecodeDone /\ ParsedAsRequested /\ OptionNewLines = {} /\ PayloadTrailingCommas = {}) =>
        decoded.ok

\* Option::Some( NewLine 1 NewLine ) is parsed and is not decoded
C22_OptionNewLineRejected ==
    /\ DecodeDone /\ ParsedAsRequested /\ ~decoded.ok
    /\ Len(trimmed) = 6 /\ OptionNewLines = {3, 5} /\ PayloadTrailingCommas = {}

\* T::P( NewLine 1 NewLine ) with a newtype member P is parsed and decoded
C22_NewtypeNewLineAccepted ==
    /\ DecodeDone /\ ParsedAsRequested /\ decoded.ok
    /\ RootIsNewtype /\ Len(trimmed) = 6
    /\ KindAt(trimmed, 3) = "NewLine" /\ KindAt(trimmed, 5) = "NewLine"

----------------------------------------------------------------------------
(* C23: an error inside the payload of Option::Some or of a newtype variant *)

MaxPayloadFollowers == 2

\* the tokens written as the payload's value: the i32 that is asked for, and
\* two tokens an i32 request fails on
PayloadValues == {I32(1), I8(1), Token("Colon")}

\* stands for a character the lexer returns Err for
Unexpected == Token("Unexpected")

PayloadFollowerAlphabet ==
    {Token("RightParen"), Token("Comma"), Token("NewLine"), I32(1), Unexpected}

PayloadDocuments(followers) ==
    {Document(<<Variant("Option", "Some"), Token("LeftParen"), value>> \o followers,
              TyOf("option", <<Int32>>)) : value \in PayloadValues}
    \cup {Document(<<Variant("T", "N"), Token("LeftParen"), value>> \o followers, AtomEnum) :
              value \in PayloadValues}

\* the lexer's items with an Err in the place of every unexpected character
LexerWithErrors(items) ==
    [i \in 1..Len(items) |->
        IF items[i].token = Unexpected THEN LexError(items[i].range) ELSE items[i]]

InitPayloadErrors ==
    /\ \E followers \in SeqsUpTo(PayloadFollowerAlphabet, MaxPayloadFollowers) :
          \E d \in PayloadDocuments(followers) :
              source = LexerWithErrors(Lexer(d.tokens, 0)) /\ schema = d.ty
    /\ lexer = source
    /\ cleared = <<>>
    /\ normalized = <<>>
    /\ trimmed = <<>>
    /\ pc = "clean"
    /\ parsed = NoOutcome
    /\ decoded = NoOutcome

SpecPayloadErrors == InitPayloadErrors /\ [][Next]_vars

\* the decoder's state when the payload's value is asked for: after the
\* Variant token and the `(`, and after a NewLine in a newtype payload
BeforePayloadValue ==
    LET opened == Deserializer_next_token(
                      Deserializer_next_token(
                          Deserializer_from_token_peekable_iter(trimmed)).st).st
    IN IF schema.k = "enum" THEN Deserializer_consume_new_line_if_exist(opened).st ELSE opened

\* the result of decoding the payload's value
PayloadValue == deserialize(BeforePayloadValue, Int32)

\* the items that follow the token the payload's value failed on
AfterPayloadValue == PayloadValue.st.upstream

\* C23: when decoding the inner value of an Option::Some payload or of a
\* newtype variant payload fails with error e, the whole decode returns e,
\* whatever follows the failing token.
C23_FirstError ==
    (DecodeDone /\ ~PayloadValue.ok) => (~decoded.ok /\ decoded.err = PayloadValue.err)

\* the decoder's own result for the closer an Option payload lacks
MissingCloser == Deserializer_consume_right_paren(PayloadValue.st)

\* an Err among the items a newtype payload takes after its value: the
\* next item, or the one after a NewLine
UpstreamErrorAfterValue ==
    \/ 1 \in Errors(AfterPayloadValue)
    \/ IsKindAt(AfterPayloadValue, 1, "NewLine") /\ 2 \in Errors(AfterPayloadValue)

\* What holds instead of C23: the error of the value is returned by an
\* Option payload only when `)` follows the failing token, and by a newtype
\* payload unless an upstream Err follows it; otherwise the later error is
\* returned.
C23_FirstErrorUnlessLaterError ==
    (DecodeDone /\ ~PayloadValue.ok) =>
        /\ ~decoded.ok
        /\ schema.k = "option" =>
              decoded.err = IF IsKindAt(AfterPayloadValue, 1, "RightParen")
                            THEN PayloadValue.err ELSE MissingCloser.err
        /\ schema.k = "enum" =>
              decoded.err = IF ~UpstreamErrorAfterValue THEN PayloadValue.err
                            ELSE IF 1 \in Errors(AfterPayloadValue)
                            THEN AfterPayloadValue[1].err ELSE AfterPayloadValue[2].err

\* Option::Some(1_i8 with no `)`: the value's error is replaced by
\* UnexpectedEndOfDocument
C23_OptionErrorReplaced ==
    /\ DecodeDone /\ schema.k = "option" /\ ~PayloadValue.ok
    /\ AfterPayloadValue = <<>>
    /\ decoded.err.kind = "UnexpectedEndOfDocument" /\ decoded.err # PayloadValue.err

\* T::N(1_i8 followed by a lexer error: the value's error is replaced by
\* the lexer's
C23_NewtypeErrorReplaced ==
    /\ DecodeDone /\ schema.k = "enum" /\ ~PayloadValue.ok
    /\ 1 \in Errors(AfterPayloadValue)
    /\ decoded.err = AfterPayloadValue[1].err /\ decoded.err # PayloadValue.err

\* Option::Some(1_i8) and T::N(1_i8): the value's error is returned
C23_ErrorReturned ==
    /\ DecodeDone /\ ~PayloadValue.ok /\ decoded.err = PayloadValue.err
    /\ IsKindAt(AfterPayloadValue, 1, "RightParen")

----------------------------------------------------------------------------
(* C24: the primitive requests of the decoder *)

MaxPrimitiveTokens == 2

\* one token of every literal kind and of every number bucket, and tokens
\* that are no value
PrimitiveTokens ==
    {Token(kind) : kind \in LiteralKinds \cup {"Comma", "LeftParen"}}
    \cup {Identifier("a")}
    \cup {NumberToken(bucket, Small(ByteLen(bucket), 1)) : bucket \in SignedBuckets \cup UnsignedBuckets}
    \cup {NumberToken(bucket, <<0, 0>>) : bucket \in FloatBuckets}

PrimitiveDocuments(request) ==
    {Document(tokens, Ty(request)) : tokens \in SeqsUpTo(PrimitiveTokens, MaxPrimitiveTokens)}

InitPrimitives == \E request \in DOMAIN PrimitiveRequests : InitWith(PrimitiveDocuments(request))

SpecPrimitives == InitPrimitives /\ [][Next]_vars

\* the token kind a request of a literal asks for
LiteralRequests ==
    [bool |-> "Boolean", char |-> "Char", string |-> "String", bytes |-> "HexByteData"]

\* the number bucket a request of a number asks for
NumberRequests ==
    [i8 |-> "I8", i16 |-> "I16", i32 |-> "I32", i64 |-> "I64",
     u8 |-> "U8", u16 |-> "U16", u32 |-> "U32", u64 |-> "U64", f32 |-> "F32", f64 |-> "F64"]

\* the token is of exactly the kind and the number bucket of the request
IsRequested(token, request) ==
    IF request = "identifier" THEN token.kind = "Identifier"
    ELSE IF request \in DOMAIN LiteralRequests THEN token.kind = LiteralRequests[request]
    ELSE token.kind = "Number" /\ token.bucket = NumberRequests[request]

\* the request made on the trimmed stream
Requested(request) ==
    IF request = "identifier"
    THEN deserialize_identifier(Deserializer_from_token_peekable_iter(trimmed))
    ELSE deserialize(Deserializer_from_token_peekable_iter(trimmed), Ty(request))

\* the request takes one token, succeeds iff the token is the requested one,
\* fails at the token's start otherwise and with UnexpectedEndOfDocument at
\* the end of the stream
AnswersExactly(request) ==
    LET r == Requested(request)
    IN /\ trimmed = <<>> => (~r.ok /\ r.err.kind = "UnexpectedEndOfDocument")
       /\ trimmed # <<>> =>
             /\ r.st.upstream = Tail(trimmed)
             /\ r.ok <=> IsRequested(trimmed[1].token, request)
             /\ ~r.ok => /\ r.err.kind = "MessageWithLocation"
                         /\ r.err.loc = get_position_by_range_start(trimmed[1].range)

\* C24: a primitive request of the decoder (bool, i8..i64, u8..u64, f32,
\* f64, char, string, bytes, identifier) consumes exactly one token and
\* succeeds iff the token is of exactly the requested kind and number
\* bucket, without widening between buckets; on any other token it returns
\* a positioned error at the token's zero-length start, and at the end of
\* the stream UnexpectedEndOfDocument.
C24_PrimitiveRequest ==
    DecodeDone =>
        /\ AnswersExactly(schema.k)
        /\ AnswersExactly("identifier")
        /\ decoded.ok <=> (Len(trimmed) = 1 /\ IsRequested(trimmed[1].token, schema.k))

\* an i64 request on an I32 token has failed at the token's start
C24_Witness ==
    /\ DecodeDone /\ schema.k = "i64"
    /\ Len(trimmed) = 1 /\ IsKindAt(trimmed, 1, "Number") /\ trimmed[1].token.bucket = "I32"
    /\ ~decoded.ok /\ decoded.err.loc = get_position_by_range_start(trimmed[1].range)

\* a u16 request on a U16 token has succeeded
C24_AcceptedWitness ==
    /\ DecodeDone /\ schema.k = "u16" /\ decoded.ok
    /\ Len(trimmed) = 1 /\ trimmed[1].token.bucket = "U16"

----------------------------------------------------------------------------
(* C25: the payload style of a variant *)

VariantPositions == {i \in 1..Len(trimmed) : KindAt(trimmed, i) = "Variant"}

\* parse_node called with the token at position i of the items as the next token
ParsedAt(items, i) == Parser_parse_node(Parser_new(SubSeq(items, i, Len(items))))

\* the call has taken the items up to position p of the items, and no more
TakenThrough(r, items, p) == r.st.upstream = SubSeq(items, p + 1, Len(items))

\* the unit variant of the Variant token at position i is returned and only
\* that token is taken
IsUnitVariantAt(r, items, i) ==
    /\ r.ok
    /\ r.val = VariantNode(items[i].token.type_name, items[i].token.name, "None", <<>>)
    /\ TakenThrough(r, items, i)

\* the style of the variant parsed at position i is the one its next token gives
StyleFollowsNextToken(items, i) ==
    LET r == ParsedAt(items, i)
    IN CASE KindAt(items, i + 1) = "LeftParen" ->
              r.ok => /\ r.val.ntype = "Variant" /\ r.val.form \in {"Value", "Tuple"}
                      /\ TakenThrough(r, items, MatchingCloser(items, i + 1))
         [] KindAt(items, i + 1) = "LeftBrace" ->
              r.ok => /\ r.val.ntype = "Variant" /\ r.val.form = "Object"
                      /\ TakenThrough(r, items, MatchingCloser(items, i + 1))
         [] OTHER -> IsUnitVariantAt(r, items, i)

\* C25: the parser picks a variant's payload style from exactly the one
\* token after the Variant token: LeftParen gives a tuple or newtype
\* payload, LeftBrace a struct payload, and any other token (also a NewLine
\* that is followed by `(` or `{`) or the end of the stream a unit variant,
\* for which only the Variant token is consumed and the tokens after it are
\* left for the enclosing production.
C25_PayloadStyle ==
    ParseDone =>
        \A i \in VariantPositions :
            /\ StyleFollowsNextToken(trimmed, i)
            /\ StyleFollowsNextToken(SubSeq(trimmed, 1, i), i)

\* a list in which a unit variant is followed by a NewLine and a tuple has
\* been parsed: the variant is an element of its own
C25_Witness ==
    /\ ParseDone /\ parsed.ok /\ parsed.val.ntype = "List"
    /\ \E i \in VariantPositions :
          /\ KindAt(trimmed, i + 1) = "NewLine" /\ KindAt(trimmed, i + 2) = "LeftParen"
          /\ IsUnitVariantAt(ParsedAt(trimmed, i), trimmed, i)
    /\ Len(parsed.val.items) = 2 /\ parsed.val.items[2].ntype = "Tuple"

\* variants with a tuple payload, a newtype payload and a struct payload
\* have been parsed
C25_PayloadWitness ==
    /\ ParseDone /\ parsed.ok
    /\ \E i \in VariantPositions :
          /\ KindAt(trimmed, i + 1) \in {"LeftParen", "LeftBrace"}
          /\ ParsedAt(trimmed, i).ok
          /\ ParsedAt(trimmed, i).val.form \in {"Value", "Tuple", "Object"}

----------------------------------------------------------------------------
(* C26: commas where an element is expected *)

MaxCommaPieces == 4

CommaContainers == {"list", "map", "tuple", "tuple_variant", "object", "struct_variant"}

\* what stands between the opener and the closer: separators, comments and elements
Pieces == {"Comma", "NewLine", "Comment", "Element"}

ContainerOpener(container) ==
    CASE container \in {"list", "map"} -> <<Token("LeftBracket")>>
      [] container = "tuple" -> <<Token("LeftParen")>>
      [] container = "tuple_variant" -> <<Variant("T", "P"), Token("LeftParen")>>
      [] container = "object" -> <<Token("LeftBrace")>>
      [] OTHER -> <<Variant("T", "S"), Token("LeftBrace")>>

ContainerCloser(container) ==
    CASE container \in {"list", "map"} -> <<Token("RightBracket")>>
      [] container \in {"tuple", "tuple_variant"} -> <<Token("RightParen")>>
      [] OTHER -> <<Token("RightBrace")>>

ContainerElement(container) ==
    CASE container = "map" -> <<I32(1), Token("Colon"), I32(2)>>
      [] container \in {"object", "struct_variant"} -> <<Identifier("a"), Token("Colon"), I32(1)>>
      [] OTHER -> <<I32(1)>>

RECURSIVE ContainerBody(_, _)
ContainerBody(container, pieces) ==
    IF pieces = <<>> THEN <<>>
    ELSE (IF Head(pieces) = "Element" THEN ContainerElement(container)
          ELSE <<Token(Head(pieces))>>) \o ContainerBody(container, Tail(pieces))

ContainerType(container) ==
    CASE container = "list" -> TyOf("seq", <<Int32>>)
      [] container = "map" -> TyOf("map", <<Int32, Int32>>)
      [] container = "tuple" -> TyOf("tuple", <<Int32>>)
      [] container = "tuple_variant" -> EnumWith("P", TyOf("newtype", <<Int32>>))
      [] container = "object" -> TyNamed("struct", "", <<"a">>, <<Int32>>)
      [] OTHER -> EnumWith("S", TyNamed("struct", "", <<"a">>, <<Int32>>))

CommaDocuments(container) ==
    {Document(ContainerOpener(container) \o ContainerBody(container, pieces)
                  \o ContainerCloser(container),
              ContainerType(container)) : pieces \in SeqsUpTo(Pieces, MaxCommaPieces)}

InitCommas == \E container \in CommaContainers : InitWith(CommaDocuments(container))

SpecCommas == InitCommas /\ [][Next]_vars

\* two Commas of the source with only NewLines and Comments between them are
\* two adjacent Commas of the trimmed stream, each with its own range
CommasSurvive ==
    \A i \in 1..Len(source) : \A j \in (i + 1)..Len(source) :
        (/\ KindAt(source, i) = "Comma" /\ KindAt(source, j) = "Comma"
         /\ \A k \in (i + 1)..(j - 1) : KindAt(source, k) \in {"NewLine", "Comment"}) =>
            \E p \in 1..(Len(trimmed) - 1) :
                /\ trimmed[p] = TokenWithRange(Token("Comma"), source[i].range)
                /\ trimmed[p + 1] = TokenWithRange(Token("Comma"), source[j].range)

\* the Commas that stand where an element is expected: after the opener or
\* after another Comma
StrayCommas ==
    {p \in 2..Len(trimmed) :
        KindAt(trimmed, p) = "Comma" /\ KindAt(trimmed, p - 1) \in Openers \cup {"Comma"}}

\* every element before position p is separated from the element before it
SeparatedBefore(p) ==
    \A q \in 2..(p - 1) :
        ~(KindAt(trimmed, q - 1) = "Number" /\ KindAt(trimmed, q) \in {"Number", "Identifier"})

\* the container is an object or the body of a struct-style variant
InBraces == \E p \in 1..2 : KindAt(trimmed, p) = "LeftBrace"

FailedAt(outcome, msg, p) ==
    /\ ~outcome.ok
    /\ outcome.err =
           MessageWithLocation(msg, get_position_by_range_start(trimmed[p].range))

\* C26 as claimed: two commas separated only by comments and newlines
\* survive normalization as two adjacent Comma tokens, and whenever a Comma
\* stands where the parser expects an element (after the opener, or as a
\* second consecutive comma) the parse fails with "Unexpected token." at
\* that comma's start.
C26_StrayCommaUnexpected ==
    /\ TrimDone => CommasSurvive
    /\ (ParseDone /\ StrayCommas # {} /\ SeparatedBefore(Least(StrayCommas))) =>
          FailedAt(parsed, "Unexpected token.", Least(StrayCommas))

\* C26 as amended: between brackets and parentheses the error of the stray
\* Comma is "Unexpected token."; between braces, where a key is expected, it
\* is "Expect a key name for object."; both at the comma's start.
C26_StrayComma ==
    /\ TrimDone => CommasSurvive
    /\ (ParseDone /\ StrayCommas # {} /\ SeparatedBefore(Least(StrayCommas))) =>
          FailedAt(parsed,
                   IF InBraces THEN "Expect a key name for object." ELSE "Unexpected token.",
                   Least(StrayCommas))

\* [1, NewLine Comment , 1]: the second of two commas has failed the parse
C26_Witness ==
    /\ ParseDone /\ ~InBraces
    /\ \E i \in 1..Len(source) :
          /\ KindAt(source, i) = "Comma" /\ KindAt(source, i + 1) \in {"NewLine", "Comment"}
          /\ KindAt(source, i + 2) = "Comma"
    /\ StrayCommas # {} /\ KindAt(trimmed, Least(StrayCommas) - 1) = "Comma"
    /\ FailedAt(parsed, "Unexpected token.", Least(StrayCommas))

\* {, a: 1}: the comma after the opening brace has failed the parse
C26_KeyWitness ==
    /\ ParseDone /\ InBraces
    /\ StrayCommas # {} /\ KindAt(trimmed, Least(StrayCommas) - 1) = "LeftBrace"
    /\ FailedAt(parsed, "Expect a key name for object.", Least(StrayCommas))

----------------------------------------------------------------------------
(* C27: how far each stage looks ahead *)

\* the documents of Spec and the token streams of SpecStreams
InitLookahead == Init \/ InitStreams

SpecLookahead == InitLookahead /\ [][Next]_vars

\* the offsets each stage peeks at
NormalizerPeekOffsets == {0}

PARSER_PEEK_OFFSETS == {0, 1}

DeserializerPeekOffsets == {0}

\* no item a stage has emitted and no result comes from a peek at an offset
\* the stage's PeekableIter has no room for
WithinCapacity ==
    /\ \A i \in 1..Len(cleared) : cleared[i].err # BeyondCapacity
    /\ \A i \in 1..Len(normalized) : normalized[i].err # BeyondCapacity
    /\ \A i \in 1..Len(trimmed) : trimmed[i].err # BeyondCapacity
    /\ parsed.err # BeyondCapacity
    /\ decoded.err # BeyondCapacity

\* the items a stage can see when it has taken n items and peeks at the
\* offsets: the n items and one more item for every offset
Seen(upstream, n, offsets) ==
    SubSeq(upstream, 1, IF n + Cardinality(offsets) < Len(upstream)
                        THEN n + Cardinality(offsets) ELSE Len(upstream))

\* the streams that agree with the upstream on the items the stage can see
\* and differ after them: cut off there, or with another item after them
SameSeen(upstream, n, offsets) ==
    IF n + Cardinality(offsets) > Len(upstream) THEN {upstream}
    ELSE {Seen(upstream, n, offsets) \o tail :
             tail \in {<<>>} \cup {<<TokenWithRange(token, new_range(0, 1))>> :
                                      token \in {Token("NewLine"), Token("Comma"), Token("Colon"),
                                                 Token("LeftParen"), I8(1)}}}

Taken(upstream, rest) == Len(upstream) - Len(rest)

\* a call of next() of the normalizer or of the trimmer on the upstream
\* returns the same item, and takes as many items, on every stream with
\* the same items in sight
StageLooksAhead(stage(_), upstream, offsets) ==
    \A other \in SameSeen(upstream, Taken(upstream, stage(upstream).rest), offsets) :
        /\ stage(other).some = stage(upstream).some
        /\ stage(other).item = stage(upstream).item
        /\ Taken(other, stage(other).rest) = Taken(upstream, stage(upstream).rest)

\* TrimmedTokenIter::new takes as many items on every stream with the same
\* items in sight
TrimmerNewLooksAhead(upstream, offsets) ==
    \A other \in SameSeen(upstream, Taken(upstream, TrimmedTokenIter_new(upstream)), offsets) :
        Taken(other, TrimmedTokenIter_new(other)) = Taken(upstream, TrimmedTokenIter_new(upstream))

\* a call of the parser or of the decoder on the upstream returns the same
\* result, and takes as many items, on every stream with the same items in sight
ResultLooksAhead(call(_), upstream, offsets) ==
    \A other \in SameSeen(upstream, Taken(upstream, call(upstream).st.upstream), offsets) :
        /\ Outcome(call(other)) = Outcome(call(upstream))
        /\ Taken(other, call(other).st.upstream) = Taken(upstream, call(upstream).st.upstream)

ParseNodeOf(upstream) == Parser_parse_node(Parser_new(upstream))

DeserializeSchemaOf(upstream) ==
    deserialize(Deserializer_from_token_peekable_iter(upstream), schema)

DeserializeElementOf(upstream) ==
    deserialize(Deserializer_from_token_peekable_iter(upstream), schema.elems[1])

From(items, i) == SubSeq(items, i, Len(items))

\* C27: no stage peeks beyond the capacity of the lookahead buffer it is
\* wired with (1 in front of the normalizer and of the trimmer, 3 in front
\* of the parser, 2 in front of the decoder), for every input and every
\* request of the visitor; what a call of the normalizer, of the trimmer or
\* of the decoder returns and takes is fixed by the items it takes and the
\* one item after them (offset 0), and what a call of the parser returns
\* and takes by the items it takes and the two after them (offsets 0, 1).
C27_Lookahead ==
    /\ WithinCapacity
    /\ pc = "normalize" => StageLooksAhead(normalize, cleared, NormalizerPeekOffsets)
    /\ pc = "trim_new" => TrimmerNewLooksAhead(normalized, NormalizerPeekOffsets)
    /\ pc = "trim" => StageLooksAhead(trim, normalized, NormalizerPeekOffsets)
    /\ pc = "parse" =>
          \A i \in 1..(Len(trimmed) + 1) :
              ResultLooksAhead(ParseNodeOf, From(trimmed, i), PARSER_PEEK_OFFSETS)
    /\ pc = "decode" =>
          /\ ResultLooksAhead(DeserializeSchemaOf, trimmed, DeserializerPeekOffsets)
          /\ schema.k = "seq" =>
                \A i \in 2..(Len(trimmed) + 1) :
                    ResultLooksAhead(DeserializeElementOf, From(trimmed, i),
                                     DeserializerPeekOffsets)

\* a map whose first key is followed by a NewLine and a Colon has been
\* parsed: the list-or-map decision has peeked at the offsets 0 and 1
C27_Witness ==
    /\ ParseDone /\ parsed.ok /\ parsed.val.ntype = "Map"
    /\ RootIsBracket
    /\ KindAt(trimmed, AfterFirstValue) = "NewLine"
    /\ KindAt(trimmed, AfterFirstValue + 1) = "Colon"

\* the normalizer is about to take a sign with a number and more after it
C27_SignWitness ==
    /\ pc = "normalize" /\ Len(cleared) > 2
    /\ IsKindAt(cleared, 1, "Minus") /\ IsKindAt(cleared, 2, "Number")

----------------------------------------------------------------------------
(* C28: unreachable!() in the decoder *)

Unreachable == Panic("internal error: entered unreachable code")

\* position i holds a Variant token of a unit member of the enum T that is
\* followed by `(` or `{`
UnitMemberWithPayload(i) ==
    /\ HasPayload(trimmed, i)
    /\ trimmed[i].token.type_name = AtomEnum.name
    /\ Contains(AtomEnum.fields, trimmed[i].token.name)
    /\ AtomEnum.elems[IndexOf(AtomEnum.fields, trimmed[i].token.name)].k = "unit"

\* C28: the decoder never reaches an unreachable!() branch: when a Variant
\* token is followed by `(` or `{` and the visitor asks for the named member
\* as a unit variant, the decode returns an error and does not abort.
C28_NeverUnreachable == DecodeDone => decoded.err # Unreachable

\* [T::A(1, 2)] decoded as a list of T, where A is a unit member: the
\* visitor has asked for unit_variant and the decode has aborted
C28_UnitVariantAborts ==
    /\ DecodeDone /\ schema = TyOf("seq", <<AtomEnum>>)
    /\ UnitMemberWithPayload(2)
    /\ decoded.err = Unreachable

\* the decode aborts in no other case
C28_AbortsOnlyForUnitMember ==
    (DecodeDone /\ decoded.err = Unreachable) =>
        \E i \in 1..Len(trimmed) : UnitMemberWithPayload(i)

----------------------------------------------------------------------------
(* C29: the node of empty brackets *)

\* every List node of a node, at any depth, has an element
RECURSIVE ListsNotEmpty(_)
ListsNotEmpty(node) ==
    /\ node.ntype = "List" => node.items # <<>>
    /\ \A i \in 1..Len(Children(node)) : ListsNotEmpty(Children(node)[i])

\* the document is `[`, an optional NewLine and `]`
EmptyBrackets ==
    /\ RootIsBracket
    /\ KindAt(trimmed, FirstValue) = "RightBracket"
    /\ Len(trimmed) = FirstValue

\* C29: parse returns a List node only when at least one element was parsed
\* inside the brackets: a `[` followed, after an optional NewLine, directly
\* by `]` yields a Map node with zero pairs, not an empty List.
C29_EmptyBracketsAreMap ==
    ParseDone =>
        /\ parsed.ok => ListsNotEmpty(parsed.val)
        /\ EmptyBrackets => (parsed.ok /\ parsed.val = AsonNode("Map"))

\* [ NewLine ] has been parsed
C29_Witness ==
    /\ ParseDone /\ EmptyBrackets /\ Len(trimmed) = 3
    /\ parsed.ok /\ parsed.val.ntype = "Map" /\ parsed.val.items = <<>>

\* a list of two elements has been parsed
C29_ListWitness ==
    /\ ParseDone /\ parsed.ok /\ parsed.val.ntype = "List" /\ Len(parsed.val.items) = 2

----------------------------------------------------------------------------
(* C30: progress and termination *)

\* the containers of SpecCommas and the signed numbers of SpecSigns
InitTermination == InitCommas \/ InitSigns

\* the steps up to the parser's result
ParseNext == CleanNext \/ NormalizeNext \/ TrimNew \/ TrimNext \/ ParseFrom

\* parse_from_char_stream runs in one thread and calls the parser and the
\* stages one inside the other, so a call that can be made is made: weak
\* fairness of ParseNext.  ENABLED <<ParseNext>>_vars is written out as
\* ~ParseDone: each of these steps is guarded by its value of pc alone, the
\* rest of it assigns, and it changes pc or shortens its upstream.
ParseNextFair == <>[]~ParseDone => []<><<ParseNext>>_vars

SpecTermination == InitTermination /\ [][Next]_vars /\ ParseNextFair

\* a call of next() of a stage on an upstream that is not exhausted takes
\* at least one item from it
StagesProgress ==
    /\ (pc = "clean" /\ lexer # <<>>) => Len(clean(lexer).rest) < Len(lexer)
    /\ (pc = "normalize" /\ cleared # <<>>) => Len(normalize(cleared).rest) < Len(cleared)
    /\ (pc = "trim" /\ normalized # <<>>) => Len(trim(normalized).rest) < Len(normalized)

\* the items the stages hold and have emitted are never more than the source's
NeverLonger == Len(lexer) + Len(cleared) + Len(normalized) + Len(trimmed) <= Len(source)

\* the number of elements, pairs or entries of a node
Elements(node) == Len(node.items)

\* the container parsed from position i on has no more elements than the
\* tokens taken between its opener and its closer: every iteration of its
\* loop has taken a token
LoopProgressAt(i) ==
    LET r == ParsedAt(trimmed, i)
        openers == IF KindAt(trimmed, i) = "Variant" THEN 2 ELSE 1
    IN (r.ok /\ (KindAt(trimmed, i) \in Openers \/ HasPayload(trimmed, i))) =>
           Elements(r.val) <= Taken(From(trimmed, i), r.st.upstream) - openers - 1

LoopsProgress == pc = "parse" => \A i \in 1..Len(trimmed) : LoopProgressAt(i)

\* C30: parse_from terminates on every finite token stream: each call of a
\* normalizer stage's next() takes at least one upstream item whenever the
\* upstream is not exhausted, so that the output is never longer than the
\* input, each iteration of a container loop of the parser takes at least
\* one token, and the parse is reached and returns.
C30_Terminates ==
    /\ [](StagesProgress /\ NeverLonger /\ LoopsProgress)
    /\ <>ParseDone

\* a document that loses items in the stages has been parsed to a container
\* of two elements
C30_Witness ==
    /\ ParseDone /\ parsed.ok /\ Elements(parsed.val) = 2
    /\ Len(trimmed) < Len(source)

\* a parse that fails has returned as well
C30_FailedWitness ==
    /\ ParseDone /\ ~parsed.ok
    /\ \E i \in 1..Len(trimmed) : KindAt(trimmed, i) \in Openers
====
